---------------------------- MODULE Spec2Model ----------------------------
(***************************************************************************)
(* A model of the layer coordinate / slicing machinery of napari           *)
(* (napari/layers/base/base.py), of the camera view-fit engine             *)
(* (napari/components/viewer_model.py) and of the shape model              *)
(* (napari/layers/shapes/_shapes_models/shape.py).                         *)
(*                                                                         *)
(* Ten state machines share the module, each with its own specification:   *)
(*   SpecDims   - the pure function Layer._world_to_layer_dims_impl        *)
(*   SpecSlice  - one Layer sliced against a Dims model, with changes of   *)
(*                its dimensionality and visibility                        *)
(*   SpecExtent - one Layer: transform setters, visibility, refresh        *)
(*                blocking and the cached extent                           *)
(*   SpecViewer - one ViewerModel: fit_to_view / reset_view                *)
(*   SpecRay    - one Layer: world rays, data rays and their intersection  *)
(*                with the layer's bounding box                            *)
(*   SpecBackend- the triangulation backend bound by Shape.__new__ and the *)
(*                mesh routines it selects                                 *)
(*   SpecShape  - one Shape: geometric operations, edge width, slicing     *)
(*                state and to_mask                                        *)
(*   SpecLoaded - one Layer: slice requests and their completions against  *)
(*                the loaded flag                                          *)
(*   SpecNorm   - the pure function _normalize_layer_data                  *)
(*   SpecMode   - one Layer: assignments to mode and visible               *)
(***************************************************************************)
EXTENDS Integers, Sequences, FiniteSets, TLC

(***************************************************************************)
(* Bounds of the model.                                                    *)
(***************************************************************************)
\* largest dimensionality of the world / the layer fed to the pure function
MaxPermNdim == 4
\* largest dimensionality of a layer and of the Dims model in SpecSlice
MaxNdim == 3
\* largest dimensionality of a layer in SpecExtent
MaxExtentNdim == 2
\* largest number of operations that change a shape in SpecShape
MaxShapeOps == 2
\* largest dimensionality of a layer in SpecLoaded and SpecMode
MaxModeNdim == 1
\* number of slice requests issued in SpecLoaded
MaxSliceIds == 4

(***************************************************************************)
(* Exact arithmetic.  A number is <<n, d, e>> and stands for               *)
(* (n / d) * 10^e.  In the normal form d > 0 is coprime to n, neither is a *)
(* multiple of 10 and e is as close to zero as that allows, so that equal  *)
(* numbers are equal tuples; zero is <<0, 1, 0>>.  The IEEE results of a   *)
(* division by zero are kept apart: <<1, 0, 0>> is +inf, <<-1, 0, 0>> is   *)
(* -inf and <<0, 0, 0>> is nan.                                            *)
(***************************************************************************)
Abs(x) == IF x < 0 THEN -x ELSE x

Sign(x) == IF x < 0 THEN -1 ELSE IF x > 0 THEN 1 ELSE 0

RECURSIVE Gcd(_, _)
Gcd(a, b) == IF b = 0 THEN a ELSE Gcd(b, a % b)

RECURSIVE Pow10(_)
Pow10(k) == IF k = 0 THEN 1 ELSE 10 * Pow10(k - 1)

\* the number of trailing decimal zeros of the non-zero integer x
RECURSIVE Trail10(_)
Trail10(x) == IF x % 10 = 0 THEN 1 + Trail10(x \div 10) ELSE 0

NumZero == <<0, 1, 0>>
NumInf  == <<1, 0, 0>>
NumNaN  == <<0, 0, 0>>

IsFinite(a) == a[2] # 0
IsNaN(a) == a = NumNaN

\* the exponent is brought as close to zero as the factors 2 and 5 of the
\* reduced fraction n / d allow without making n or d a multiple of 10
RECURSIVE Settle(_, _, _)
Settle(n, d, e) ==
    IF e < 0 /\ n % 2 = 0 THEN Settle(n \div 2, d * 5, e + 1)
    ELSE IF e < 0 /\ n % 5 = 0 THEN Settle(n \div 5, d * 2, e + 1)
    ELSE IF e > 0 /\ d % 2 = 0 THEN Settle(n * 5, d \div 2, e - 1)
    ELSE IF e > 0 /\ d % 5 = 0 THEN Settle(n * 2, d \div 5, e - 1)
    ELSE <<n, d, e>>

Norm(n, d, e) ==
    IF d = 0 THEN <<Sign(n), 0, 0>>
    ELSE IF n = 0 THEN NumZero
    ELSE LET s  == Sign(n) * Sign(d)
             g  == Gcd(Abs(n), Abs(d))
             n1 == Abs(n) \div g
             d1 == Abs(d) \div g
             kn == Trail10(n1)
             kd == Trail10(d1)
         IN  Settle(s * (n1 \div Pow10(kn)), d1 \div Pow10(kd), e + kn - kd)

NumInt(x) == Norm(x, 1, 0)
Frac(n, d) == Norm(n, d, 0)

NumNeg(a) == <<-a[1], a[2], a[3]>>
NumAbs(a) == <<Abs(a[1]), a[2], a[3]>>

NumMul(a, b) ==
    IF IsNaN(a) \/ IsNaN(b) THEN NumNaN
    ELSE IF ~IsFinite(a) \/ ~IsFinite(b)
         THEN <<Sign(a[1]) * Sign(b[1]), 0, 0>>
    ELSE IF a[1] = 0 \/ b[1] = 0 THEN NumZero
    ELSE LET g1 == Gcd(Abs(a[1]), b[2])
             g2 == Gcd(Abs(b[1]), a[2])
         IN  Norm((a[1] \div g1) * (b[1] \div g2),
                  (a[2] \div g2) * (b[2] \div g1), a[3] + b[3])

\* IEEE division as numpy performs it: x/0 is +-inf, 0/0 is nan, x/inf is 0
NumDiv(a, b) ==
    IF IsNaN(a) \/ IsNaN(b) THEN NumNaN
    ELSE IF ~IsFinite(b)
         THEN (IF IsFinite(a) THEN NumZero ELSE NumNaN)
    ELSE IF b[1] = 0 THEN <<Sign(a[1]), 0, 0>>
    ELSE NumMul(a, <<Sign(b[1]) * b[2], Abs(b[1]), -b[3]>>)

NumAdd(a, b) ==
    IF IsNaN(a) \/ IsNaN(b) THEN NumNaN
    ELSE IF ~IsFinite(a)
         THEN (IF ~IsFinite(b) /\ b # a THEN NumNaN ELSE a)
    ELSE IF ~IsFinite(b) THEN b
    ELSE IF a[1] = 0 THEN b
    ELSE IF b[1] = 0 THEN a
    ELSE LET e == IF a[3] < b[3] THEN a[3] ELSE b[3]
         IN  Norm(a[1] * Pow10(a[3] - e) * b[2] + b[1] * Pow10(b[3] - e) * a[2],
                  a[2] * b[2], e)

NumSub(a, b) == NumAdd(a, NumNeg(b))

\* a < b for finite, strictly positive a and b, without forming a product
\* that leaves the machine integers: L * 10^k < R  iff  10^k <= (R - 1) \div L
LessPos(a, b) ==
    LET L == a[1] * b[2]
        R == b[1] * a[2]
        k == a[3] - b[3]
    IN  IF k >= 0
        THEN k <= 9 /\ Pow10(k) <= (R - 1) \div L
        ELSE (-k) > 9 \/ ~(Pow10(-k) <= L \div R)

\* a < b; every comparison with nan is false
NumLess(a, b) ==
    IF IsNaN(a) \/ IsNaN(b) \/ a = b THEN FALSE
    ELSE IF ~IsFinite(a) THEN a[1] < 0
    ELSE IF ~IsFinite(b) THEN b[1] > 0
    ELSE IF Sign(a[1]) # Sign(b[1]) THEN Sign(a[1]) < Sign(b[1])
    ELSE IF a[1] > 0 THEN LessPos(a, b)
    ELSE LessPos(NumAbs(b), NumAbs(a))

NumLeq(a, b) == a = b \/ NumLess(a, b)

\* np.min of two values: nan propagates
NumMin2(a, b) ==
    IF IsNaN(a) \/ IsNaN(b) THEN NumNaN
    ELSE IF NumLess(b, a) THEN b ELSE a

NumMax2(a, b) ==
    IF IsNaN(a) \/ IsNaN(b) THEN NumNaN
    ELSE IF NumLess(a, b) THEN b ELSE a

RECURSIVE NumMinSeq(_)
NumMinSeq(s) ==
    IF Len(s) = 1 THEN s[1] ELSE NumMin2(s[1], NumMinSeq(Tail(s)))

RECURSIVE NumMaxSeq(_)
NumMaxSeq(s) ==
    IF Len(s) = 1 THEN s[1] ELSE NumMax2(s[1], NumMaxSeq(Tail(s)))

(***************************************************************************)
(* Sequences as numpy arrays / tuples.                                     *)
(***************************************************************************)
\* s[-n:] : the last n entries, the whole of s when it has fewer than n
LastN(s, n) ==
    IF n >= Len(s) THEN s ELSE SubSeq(s, Len(s) - n + 1, Len(s))

\* s[:-n] for n >= 1 : all but the last n entries
ButLastN(s, n) ==
    IF n >= Len(s) THEN <<>> ELSE SubSeq(s, 1, Len(s) - n)

\* np.arange(n) : <<0, 1, ..., n-1>>
Arange(n) == [i \in 1..n |-> i - 1]

Range(s) == {s[i] : i \in DOMAIN s}

\* the permutations of 0..n-1, as sequences of length n
PermsOf(n) ==
    {p \in [1..n -> 0..(n - 1)] : \A i, j \in 1..n : p[i] = p[j] => i = j}

IsPermutation(s, n) ==
    /\ Len(s) = n
    /\ \A v \in 0..(n - 1) : Cardinality({i \in DOMAIN s : s[i] = v}) = 1

(***************************************************************************)
(* Layer._world_to_layer_dims_impl                                         *)
(***************************************************************************)
\* order[order >= offset] - offset, dropping the comparison (a plausible slip)
world_to_layer_dims_impl_nofilter(world_dims, ndim_world, ndim) ==
    LET offset == ndim_world - ndim
    IN  IF offset = 0 THEN world_dims
        ELSE IF offset < 0
             THEN Arange(-offset) \o [i \in DOMAIN world_dims |-> world_dims[i] - offset]
        ELSE LastN([i \in DOMAIN world_dims |-> world_dims[i] - offset], ndim)

\* the layer's extra leading dims are prepended but the world entries are
\* left where they were (the "- offset" forgotten on the second operand)
world_to_layer_dims_impl_noshift(world_dims, ndim_world, ndim) ==
    LET offset == ndim_world - ndim
        keep(x) == x >= offset
        kept   == SelectSeq(world_dims, keep)
    IN  IF offset = 0 THEN world_dims
        ELSE IF offset < 0 THEN Arange(-offset) \o world_dims
        ELSE [i \in DOMAIN kept |-> kept[i] - offset]

world_to_layer_dims_impl(world_dims, ndim_world, ndim) ==
    LET offset == ndim_world - ndim
        order  == world_dims
        keep(x) == x >= offset
        kept   == SelectSeq(order, keep)
    IN  IF offset = 0 THEN order
        ELSE IF offset < 0
             THEN Arange(-offset) \o [i \in DOMAIN order |-> order[i] - offset]
        ELSE [i \in DOMAIN kept |-> kept[i] - offset]


(***************************************************************************)
(* Integer vectors and matrices: the transforms of a layer.                *)
(* TransformChain, Affine and CompositeAffine live in                      *)
(* napari/utils/transforms; they are modelled from the specification:      *)
(* data -> world is  affine * (rotate * shear * scale + translate).        *)
(***************************************************************************)
Ones(n) == [i \in 1..n |-> 1]
Zeros(n) == [i \in 1..n |-> 0]
Identity(n) == [i \in 1..n |-> [j \in 1..n |-> IF i = j THEN 1 ELSE 0]]
Diag(v) == [i \in DOMAIN v |-> [j \in DOMAIN v |-> IF i = j THEN v[i] ELSE 0]]

RECURSIVE SumTo(_, _)
SumTo(f, n) == IF n = 0 THEN 0 ELSE f[n] + SumTo(f, n - 1)

MatMul(A, B) ==
    [i \in DOMAIN A |-> [j \in DOMAIN A |->
        SumTo([k \in DOMAIN A |-> A[i][k] * B[k][j]], Len(A))]]

MatVec(A, v) ==
    [i \in DOMAIN A |-> SumTo([k \in DOMAIN A |-> A[i][k] * v[k]], Len(A))]

\* a quarter turn in the plane of the last two axes (identity in one dim)
QuarterTurn(n) ==
    [i \in 1..n |-> [j \in 1..n |->
        IF n >= 2 /\ i = n - 1 /\ j = n - 1 THEN 0
        ELSE IF n >= 2 /\ i = n - 1 /\ j = n THEN -1
        ELSE IF n >= 2 /\ i = n /\ j = n - 1 THEN 1
        ELSE IF n >= 2 /\ i = n /\ j = n THEN 0
        ELSE IF i = j THEN 1 ELSE 0]]

\* a unit upper-triangular shear of the last axis into the one before it
UnitShear(n) ==
    [i \in 1..n |-> [j \in 1..n |->
        IF i = j THEN 1 ELSE IF n >= 2 /\ i = n - 1 /\ j = n THEN 1 ELSE 0]]

\* TransformChain.set_slice(range(old - n, old)): keep the last n axes
SliceVec(v, n) == LastN(v, n)
SliceMat(M, n) ==
    LET old == Len(M)
    IN  [i \in 1..n |-> [j \in 1..n |-> M[old - n + i][old - n + j]]]

\* TransformChain.expand_dims(range(n - old)): n - old identity axes in front
ExpandVec(v, n, fill) ==
    [i \in 1..(n - Len(v)) |-> fill] \o v
ExpandMat(M, n) ==
    LET k == n - Len(M)
    IN  [i \in 1..n |-> [j \in 1..n |->
            IF i > k /\ j > k THEN M[i - k][j - k]
            ELSE IF i = j THEN 1 ELSE 0]]

\* the transforms a fresh layer of n dims is built with (Layer.__init__)
DefaultTransforms(n, scale, translate) ==
    [scale     |-> scale,
     translate |-> translate,
     rotate    |-> Identity(n),
     shear     |-> Identity(n),
     units     |-> [i \in 1..n |-> "pixel"],
     affine    |-> [k |-> 1, translate |-> Zeros(n)]]

\* every member of the chain restricted / expanded to n axes
ResizeTransforms(t, old_ndim, ndim) ==
    IF old_ndim > ndim
    THEN [scale     |-> SliceVec(t.scale, ndim),
          translate |-> SliceVec(t.translate, ndim),
          rotate    |-> SliceMat(t.rotate, ndim),
          shear     |-> SliceMat(t.shear, ndim),
          units     |-> SliceVec(t.units, ndim),
          affine    |-> [k |-> t.affine.k,
                         translate |-> SliceVec(t.affine.translate, ndim)]]
    ELSE IF old_ndim < ndim
    THEN [scale     |-> ExpandVec(t.scale, ndim, 1),
          translate |-> ExpandVec(t.translate, ndim, 0),
          rotate    |-> ExpandMat(t.rotate, ndim),
          shear     |-> ExpandMat(t.shear, ndim),
          units     |-> ExpandVec(t.units, ndim, "pixel"),
          affine    |-> [k |-> t.affine.k,
                         translate |-> ExpandVec(t.affine.translate, ndim, 0)]]
    ELSE t

\* Layer._data_to_world applied to the data point x
DataToWorld(t, x) ==
    LET L == MatMul(t.rotate, MatMul(t.shear, Diag(t.scale)))
        y == MatVec(L, x)
    IN  [i \in DOMAIN x |->
            t.affine.k * (y[i] + t.translate[i]) + t.affine.translate[i]]

\* abs(data_to_world.scale): the scale of the composed transform, for an
\* extra affine that scales every axis by the same factor k
StepOf(t) == [i \in DOMAIN t.scale |-> Abs(t.affine.k * t.scale[i])]

SetMin(S) == CHOOSE x \in S : \A y \in S : x <= y
SetMax(S) == CHOOSE x \in S : \A y \in S : x >= y

\* get_extent_world: map the 2^D corners of the data box, take min and max
get_extent_world(extent_data, t) ==
    LET n       == Len(extent_data[1])
        corners == {c \in [1..n -> 1..2] : TRUE}
        image   == {DataToWorld(t, [i \in 1..n |-> extent_data[c[i]][i]]) :
                        c \in corners}
    IN  <<[i \in 1..n |-> SetMin({w[i] : w \in image})],
          [i \in 1..n |-> SetMax({w[i] : w \in image})]>>

\* Layer._extent_data of an array-like layer whose data has the given shape
extent_data(data) ==
    <<[i \in DOMAIN data |-> 0], [i \in DOMAIN data |-> data[i] - 1]>>

(***************************************************************************)
(* The slice input of a layer.  _SliceInput and _ThickNDSlice live in      *)
(* napari/layers/utils/_slice_input.py; they are modelled from the         *)
(* specification: a thick slice holds a point and two margins per dim.     *)
(***************************************************************************)
\* a coordinate of a slicing point: <<v>> is the number v, <<>> is nan
Coord(v) == <<v>>
NaN == <<>>

\* _ThickNDSlice.make_full(ndim=n) / make_full(point=(nan,) * n)
ThickNDSlice_make_full(n) ==
    [point        |-> [i \in 1..n |-> NaN],
     margin_left  |-> Zeros(n),
     margin_right |-> Zeros(n)]

\* _ThickNDSlice.from_dims(dims): one entry per world dim
ThickNDSlice_from_dims(dims) ==
    [point        |-> [i \in DOMAIN dims.point |-> Coord(dims.point[i])],
     margin_left  |-> dims.margin_left,
     margin_right |-> dims.margin_right]

\* world_slice[-n:] : numpy-like slicing of every field
ThickNDSlice_last(ws, n) ==
    [point        |-> LastN(ws.point, n),
     margin_left  |-> LastN(ws.margin_left, n),
     margin_right |-> LastN(ws.margin_right, n)]

\* _ThickNDSlice.copy_with(ndim=n): trimmed to the last n dims, or filled
\* with zeros in front
ThickNDSlice_copy_with_ndim(ws, n) ==
    IF n <= Len(ws.point) THEN ThickNDSlice_last(ws, n)
    ELSE [point        |-> ExpandVec(ws.point, n, Coord(0)),
          margin_left  |-> ExpandVec(ws.margin_left, n, 0),
          margin_right |-> ExpandVec(ws.margin_right, n, 0)]

\* reorder_after_dim_reduction: the ranks of the entries, order preserved
reorder_after_dim_reduction(order) ==
    [i \in DOMAIN order |->
        Cardinality({j \in DOMAIN order : order[j] < order[i]})]

\* _SliceInput.with_ndim(n)
SliceInput_with_ndim(si, n) ==
    LET old == Len(si.order)
    IN  [ndisplay    |-> si.ndisplay,
         world_slice |-> ThickNDSlice_copy_with_ndim(si.world_slice, n),
         order       |-> IF old > n
                         THEN reorder_after_dim_reduction(LastN(si.order, n))
                         ELSE IF old < n
                         THEN Arange(n - old) \o
                              [i \in DOMAIN si.order |-> si.order[i] + n - old]
                         ELSE si.order]

(***************************************************************************)
(* Layer (napari/layers/base/base.py).  The operations below act on a pair *)
(* S = [l |-> the layer's fields, fx |-> the events emitted and hooks      *)
(* called so far by the running operation] and return the pair after.      *)
(***************************************************************************)
Some(x) == <<x>>
Nothing == <<>>

PAN_ZOOM == "pan_zoom"
TRANSFORM == "transform"
Modes == {PAN_ZOOM, TRANSFORM}

\* Layer._drag_modes, Layer._move_modes, Layer._cursor_modes
drag_modes(mode) == IF mode = PAN_ZOOM THEN "no_op" ELSE "transform_with_box"
move_modes(mode) == IF mode = PAN_ZOOM THEN "no_op" ELSE "highlight_box_handles"
cursor_modes(mode) == "standard"
double_click_modes(mode) == "no_op"

\* an event is emitted or a hook is called: recorded when it is observed
Emit(S, ev) == IF ev \in S.observed THEN [S EXCEPT !.fx = @ \cup {ev}] ELSE S

\* Layer._clear_extent: both cached properties deleted, event emitted
clear_extent(S) ==
    Emit([S EXCEPT !.l.extent = Nothing, !.l.extent_augmented = Nothing],
         "_extent_augmented")

\* Layer.set_view_slice: the subclass hook _set_view_slice recomputes the
\* view from the current slice input and data
set_view_slice(S) == Emit(S, "set_view_slice")

\* Layer._refresh_sync
refresh_sync(S, thumbnail, data_displayed, highlight, extent, force) ==
    IF ~(S.l.visible \/ force) THEN S
    ELSE LET S1 == IF extent THEN clear_extent(S) ELSE S
             S2 == IF data_displayed THEN Emit(set_view_slice(S1), "set_data") ELSE S1
             S3 == IF thumbnail THEN Emit(S2, "_update_thumbnail") ELSE S2
         IN  IF highlight THEN Emit(S3, "_set_highlight") ELSE S3

\* Layer.refresh: nothing while refresh is blocked; with asynchronous
\* slicing a reload event instead of the synchronous refresh
refresh(S, async, thumbnail, data_displayed, highlight, extent, force) ==
    IF S.l.refresh_blocked THEN S
    ELSE IF async /\ data_displayed THEN Emit(S, "reload")
    ELSE refresh_sync(S, thumbnail, data_displayed, highlight, extent, force)

\* list.remove(x) if x in list, then list.append(y)
SwapCallback(list, x, y) ==
    LET removed == IF x \in Range(list)
                   THEN LET i == CHOOSE k \in DOMAIN list :
                                    list[k] = x /\ \A m \in 1..(k - 1) : list[m] # x
                        IN  SubSeq(list, 1, i - 1) \o SubSeq(list, i + 1, Len(list))
                   ELSE list
    IN  Append(removed, y)

\* a helper that lets an invisible or locked layer take any mode
helper_mode_unchecked(l, mode_in) == mode_in

\* the mode Layer._mode_setter_helper settles on
helper_mode(l, mode_in) ==
    IF ~l.editable \/ ~l.visible THEN PAN_ZOOM ELSE mode_in

\* Layer._mode_setter_helper followed by the rest of the mode setter, for a
\* mode_in that is a member of the mode class
set_mode(S, mode_in) ==
    LET mode == helper_mode(S.l, mode_in)
    IN  IF mode = S.l.mode THEN S
        ELSE LET S1 == [S EXCEPT
                    !.l.mouse_drag_callbacks =
                        SwapCallback(@, drag_modes(S.l.mode), drag_modes(mode)),
                    !.l.mouse_move_callbacks =
                        SwapCallback(@, move_modes(S.l.mode), move_modes(mode)),
                    !.l.mouse_double_click_callbacks =
                        SwapCallback(@, double_click_modes(S.l.mode),
                                     double_click_modes(mode)),
                    !.l.cursor = cursor_modes(mode),
                    !.l.mouse_pan = (mode = PAN_ZOOM),
                    !.l.transform_box_visible = (mode = TRANSFORM),
                    !.l.help = IF mode = TRANSFORM THEN "transform help" ELSE "",
                    !.l.mode = mode]
             IN  Emit(Emit(Emit(S1, "mouse_pan"), "help"), "mode")

\* Layer._on_visible_changed
on_visible_changed(S) ==
    IF S.l.visible /\ S.l.visible_mode # Nothing
    THEN set_mode(S, S.l.visible_mode[1])
    ELSE set_mode([S EXCEPT !.l.visible_mode = Some(S.l.mode)], PAN_ZOOM)

\* Layer.visible (setter)
set_visible(S, async, visible) ==
    LET S1 == [S EXCEPT !.l.visible = visible]
        S2 == IF visible
              THEN refresh(S1, async, TRUE, TRUE, TRUE, FALSE, FALSE)
              ELSE S1
    IN  Emit(on_visible_changed(S2), "visible")

(***************************************************************************)
(* State.                                                                  *)
(***************************************************************************)
VARIABLES
    wl_args,    \* arguments handed to _world_to_layer_dims_impl
    wl_result,  \* its return value
    wl_done,    \* whether the call has returned
    layer,      \* the fields of the Layer object
    observed,   \* the events and hooks an observer is connected to
    fx,         \* observed events emitted and hooks called by the last operation
    err,        \* the exception the last operation raised, "" if none
    call,       \* the arguments of _slice_dims when it ran last, else NoCall
    async_,     \* settings.experimental.async_
    viewer,     \* what the ViewerModel reads: canvas, grid, dims, layer extent
    camera,     \* the Camera the viewer writes into
    vlog,       \* camera writes and events of the last viewer operation, in order
    verr,       \* the exception the last viewer operation raised, "" if none
    vcall,      \* the last viewer operation and its arguments
    ray_args,   \* arguments handed to get_ray_intersections
    ray_result, \* the pair it returned, or the exception it raised
    ray_done,   \* whether the call has returned
    TRIANGULATION_BACKEND, \* the module-level backend setting of shape.py
    modules,    \* which optional triangulation libraries can be used
    cls,        \* the routines bound as attributes of the shape class
    shape,      \* the fields of one instance of that class
    shcall,     \* the last shape operation, its arguments and what it did
    slicer,     \* the slice requests issued and those still in flight
    norm        \* the argument and the outcome of _normalize_layer_data

vars == <<wl_args, wl_result, wl_done, layer, observed, fx, err, call, async_,
          viewer, camera, vlog, verr, vcall, ray_args, ray_result, ray_done,
          TRIANGULATION_BACKEND, modules, cls, shape, shcall, slicer, norm>>
dimsVars == <<wl_args, wl_result, wl_done>>
layerVars == <<layer, observed, fx, err, call, async_>>
viewerVars == <<viewer, camera, vlog, verr, vcall>>
rayVars == <<ray_args, ray_result, ray_done>>
shapeVars == <<TRIANGULATION_BACKEND, modules, cls, shape, shcall>>
slicerVars == <<slicer>>
normVars == <<norm>>

(***************************************************************************)
(* The inputs of the layer operations.                                     *)
(***************************************************************************)
DataInputs(maxndim) ==
    UNION {{[i \in 1..n |-> 2], [i \in 1..n |-> i + 1]} : n \in 1..maxndim}
ScaleInputs(n) ==
    {Ones(n), [i \in 1..n |-> 2], [i \in 1..n |-> IF i = n THEN 0 ELSE 1]}
TranslateInputs(n) == {Zeros(n), [i \in 1..n |-> i]}
RotateInputs(n) == {Identity(n), QuarterTurn(n)}
ShearInputs(n) == {Identity(n), UnitShear(n)}
AffineInputs(n) ==
    {[k |-> 1, translate |-> Zeros(n)], [k |-> 2, translate |-> Ones(n)]}
UnitsInputs(n) == {[i \in 1..n |-> "pixel"], [i \in 1..n |-> "mm"]}

\* the Dims model handed to _slice_dims; order = <<>> stands for None
DimsOf(n, nd, order, point) ==
    [none |-> FALSE, ndim |-> n, ndisplay |-> nd, order |-> order,
     point |-> point, margin_left |-> Zeros(n), margin_right |-> Zeros(n)]
NoDims ==
    [none |-> TRUE, ndim |-> 0, ndisplay |-> 0, order |-> <<>>,
     point |-> <<>>, margin_left |-> <<>>, margin_right |-> <<>>]
\* every order and ndisplay at the origin, and one point off the origin
DimsInputs ==
    UNION {
        {DimsOf(n, nd, order, Zeros(n)) :
            nd \in {2, 3}, order \in PermsOf(n) \cup {<<>>}}
        \cup {DimsOf(n, 2, <<>>, [i \in 1..n |-> i])} : n \in 2..MaxNdim}

NoCall == [op |-> "", dims |-> NoDims, force |-> FALSE]

(***************************************************************************)
(* ViewerModel (napari/components/viewer_model.py).  The viewer reads its  *)
(* canvas size, the grid layout, the dims model and the augmented world    *)
(* extent of its layers, and writes center, zoom and angles into the       *)
(* camera.  Camera, GridCanvas, Dims and LayerList live outside the        *)
(* modelled files; they are modelled from the specification as the values  *)
(* the viewer reads from them.                                             *)
(***************************************************************************)
NumVec(s) == [i \in DOMAIN s |-> NumInt(s[i])]

NumOne == NumInt(1)

\* the camera orientations: angles with the view and up direction they give
DefaultAngles == <<0, 0, 90>>

Orientations ==
    {[angles |-> DefaultAngles, view_direction |-> <<1, 0, 0>>,
      up_direction |-> <<0, -1, 0>>],
     [angles |-> <<0, 0, 0>>, view_direction |-> <<0, 1, 0>>,
      up_direction |-> <<1, 0, 0>>],
     [angles |-> <<0, 90, 0>>, view_direction |-> <<0, 0, -1>>,
      up_direction |-> <<1, 0, 0>>]}

OrientationOf(angles) == CHOOSE o \in Orientations : o.angles = angles

\* Camera(): center (0, 0, 0), zoom 1, angles (0, 0, 90)
NewCamera ==
    [center |-> NumVec(<<0, 0, 0>>), zoom |-> NumOne,
     angles |-> DefaultAngles,
     view_direction |-> OrientationOf(DefaultAngles).view_direction,
     up_direction |-> OrientationOf(DefaultAngles).up_direction]

\* camera.angles = angles
set_angles(cam, angles) ==
    [cam EXCEPT !.angles = angles,
                !.view_direction = OrientationOf(angles).view_direction,
                !.up_direction = OrientationOf(angles).up_direction]

\* self._canvas_size, (800, 600) unless the canvas was resized
DefaultCanvasSize == <<800, 600>>

\* a viewer operation in progress: the camera, the camera writes and events
\* so far, and the exception raised
ViewerRun(cam) == [cam |-> cam, log |-> <<>>, err |-> ""]

Wrote(R, what, cam) ==
    [R EXCEPT !.cam = cam, !.log = Append(@, [what |-> what, cam |-> cam])]

\* ViewerModel._sliced_extent_world_augmented
sliced_extent_world_augmented(v) ==
    IF v.nlayers = 0
    THEN <<[i \in 1..v.dims_ndim |-> Frac(-1, 2)],
           [i \in 1..v.dims_ndim |-> Frac(1023, 2)]>>
    ELSE v.layers_extent

\* ViewerModel._get_scene_parameters
get_scene_parameters(v) ==
    LET extent == sliced_extent_world_augmented(v)
    IN  [extent |-> extent,
         scene_size |-> [i \in DOMAIN extent[1] |->
                            NumSub(extent[2][i], extent[1][i])],
         corner |-> extent[1]]

\* a slip: the far corner instead of the middle of the scene
calculate_view_center_corner(v, corner, scene_size) ==
    LET center_array ==
            LastN([i \in DOMAIN corner |-> NumAdd(corner[i], scene_size[i])],
                  v.ndisplay)
    IN  [i \in 1..(v.ndisplay - Len(center_array)) |-> NumZero] \o center_array

\* ViewerModel._calculate_view_center
calculate_view_center(v, corner, scene_size) ==
    LET center_array ==
            LastN([i \in DOMAIN corner |->
                      NumAdd(corner[i], NumDiv(scene_size[i], NumInt(2)))],
                  v.ndisplay)
    IN  [i \in 1..(v.ndisplay - Len(center_array)) |-> NumZero] \o center_array

\* a slip: margin = 1 accepted
get_scale_factor_closed(margin) ==
    IF NumLeq(NumZero, margin) /\ NumLeq(margin, NumOne)
    THEN [ok |-> TRUE, value |-> NumSub(NumOne, margin)]
    ELSE [ok |-> FALSE, value |-> NumZero]

\* ViewerModel._get_scale_factor: ok is FALSE where ValueError is raised
get_scale_factor(margin) ==
    IF NumLeq(NumZero, margin) /\ NumLess(margin, NumOne)
    THEN [ok |-> TRUE, value |-> NumSub(NumOne, margin)]
    ELSE [ok |-> FALSE, value |-> NumZero]

\* ViewerModel._get_viewbox_size
get_viewbox_size(v) ==
    IF v.grid.enabled
    THEN [i \in 1..2 |->
            Frac(v.canvas_size[i]
                    - v.grid.spacing_pixels * (v.grid.actual_shape[i] - 1),
                 v.grid.actual_shape[i])]
    ELSE NumVec(v.canvas_size)

\* np.isclose(x, 0): |x| <= atol + rtol * 0, atol = 1e-8
IsCloseToZero(x) == IsFinite(x) /\ NumLeq(NumAbs(x), Norm(1, 1, -8))

\* a slip: only an exact zero is replaced
get_2d_camera_zoom_exact(v, scene_size, scale_factor) ==
    LET last  == LastN(scene_size, 2)
        scale == [i \in DOMAIN last |->
                    IF last[i] = NumZero THEN NumOne ELSE last[i]]
        vb    == get_viewbox_size(v)
    IN  NumMul(scale_factor,
               NumMinSeq([i \in DOMAIN scale |-> NumDiv(vb[i], scale[i])]))

\* ViewerModel._get_2d_camera_zoom
get_2d_camera_zoom(v, scene_size, scale_factor) ==
    LET last  == LastN(scene_size, 2)
        scale == [i \in DOMAIN last |->
                    IF IsCloseToZero(last[i]) THEN NumOne ELSE last[i]]
        vb    == get_viewbox_size(v)
    IN  NumMul(scale_factor,
               NumMinSeq([i \in DOMAIN scale |-> NumDiv(vb[i], scale[i])]))

\* np.cross of two 3-vectors
Cross(a, b) ==
    <<a[2] * b[3] - a[3] * b[2],
      a[3] * b[1] - a[1] * b[3],
      a[1] * b[2] - a[2] * b[1]>>

\* np.dot of an integer vector with a vector of numbers
RECURSIVE NumDot(_, _)
NumDot(a, x) ==
    IF Len(a) = 0 THEN NumZero
    ELSE NumAdd(NumMul(NumInt(Head(a)), Head(x)), NumDot(Tail(a), Tail(x)))

\* ViewerModel._calculate_bounding_box
calculate_bounding_box(extent, view_direction, up_direction) ==
    LET diff  == [i \in DOMAIN extent[1] |->
                    NumSub(extent[2][i], extent[1][i])]
        size  == IF Len(diff) < Len(view_direction)
                 THEN <<Norm(1, 1, -10)>> \o diff
                 ELSE diff
        right_direction == Cross(view_direction, up_direction)
        displayed_height ==
            NumDot([i \in 1..3 |-> Abs(up_direction[i])], size)
        displayed_width ==
            NumDot([i \in 1..3 |-> Abs(right_direction[i])], size)
    IN  <<displayed_height, displayed_width>>

\* ViewerModel._get_3d_camera_zoom
get_3d_camera_zoom(v, cam, extent, scale_factor) ==
    LET bounding_box ==
            calculate_bounding_box(extent, cam.view_direction,
                                   cam.up_direction)
        vb == get_viewbox_size(v)
    IN  NumMul(scale_factor,
               NumMinSeq([i \in 1..2 |-> NumDiv(vb[i], bounding_box[i])]))

\* a slip: the degenerate scene fitted to one viewbox of the grid
camera_zoom_viewbox(v, cam, scene, scale_factor) ==
    IF NumMaxSeq(scene.scene_size) = NumZero
    THEN NumMul(scale_factor, NumMinSeq(get_viewbox_size(v)))
    ELSE IF v.ndisplay = 2
    THEN get_2d_camera_zoom(v, scene.scene_size, scale_factor)
    ELSE get_3d_camera_zoom(v, cam, scene.extent, scale_factor)

\* ViewerModel.fit_to_view, the zoom it assigns (ndisplay is 2 or 3)
camera_zoom(v, cam, scene, scale_factor) ==
    IF NumMaxSeq(scene.scene_size) = NumZero
    THEN NumMul(scale_factor, NumMinSeq(NumVec(v.canvas_size)))
    ELSE IF v.ndisplay = 2
    THEN get_2d_camera_zoom(v, scene.scene_size, scale_factor)
    ELSE get_3d_camera_zoom(v, cam, scene.extent, scale_factor)

\* a fit_to_view that emits reset_view before it writes the zoom
fit_to_view_early_event(v, R, margin) ==
    LET scene == get_scene_parameters(v)
        R1 == Wrote(R, "center",
                    [R.cam EXCEPT !.center =
                        calculate_view_center(v, scene.corner,
                                              scene.scene_size)])
        sf == get_scale_factor(margin)
    IN  IF ~sf.ok THEN [R1 EXCEPT !.err = "ValueError"]
        ELSE LET R2 == Wrote(R1, "reset_view", R1.cam)
             IN  Wrote(R2, "zoom",
                       [R2.cam EXCEPT !.zoom =
                           camera_zoom(v, R2.cam, scene, sf.value)])

\* ViewerModel.fit_to_view: the center is written, then the margin is
\* validated, then the zoom is written and reset_view is emitted
fit_to_view(v, R, margin) ==
    LET scene == get_scene_parameters(v)
        R1 == Wrote(R, "center",
                    [R.cam EXCEPT !.center =
                        calculate_view_center(v, scene.corner,
                                              scene.scene_size)])
        sf == get_scale_factor(margin)
    IN  IF ~sf.ok THEN [R1 EXCEPT !.err = "ValueError"]
        ELSE LET R2 == Wrote(R1, "zoom",
                             [R1.cam EXCEPT !.zoom =
                                 camera_zoom(v, R1.cam, scene, sf.value)])
             IN  Wrote(R2, "reset_view", R2.cam)

\* ViewerModel.reset_view
reset_view(v, R, margin, reset_camera_angle) ==
    LET R1 == IF v.ndisplay = 3 /\ reset_camera_angle
              THEN Wrote(R, "angles", set_angles(R.cam, DefaultAngles))
              ELSE R
    IN  fit_to_view(v, R1, margin)

(***************************************************************************)
(* The inputs of the viewer operations.                                    *)
(***************************************************************************)
CanvasInputs == {DefaultCanvasSize, <<300, 900>>}

\* grid.enabled, grid.actual_shape(len(layers)) and
\* grid._compute_canvas_spacing(canvas_size, len(layers))
GridInputs ==
    {[enabled |-> FALSE, actual_shape |-> <<1, 1>>, spacing_pixels |-> 0],
     [enabled |-> TRUE, actual_shape |-> <<2, 2>>, spacing_pixels |-> 10],
     [enabled |-> TRUE, actual_shape |-> <<1, 3>>, spacing_pixels |-> 0]}

Tiny == Norm(1, 1, -9)

\* the augmented world extent of the layers in the displayed dims
ExtentInputs(d) ==
    IF d = 2
    THEN {<<NumVec(<<0, 0>>), NumVec(<<100, 50>>)>>,
          <<NumVec(<<5, 7>>), NumVec(<<5, 7>>)>>,
          <<NumVec(<<-10, 20>>), NumVec(<<-10, 60>>)>>,
          <<NumVec(<<0, 0>>), <<Tiny, NumInt(50)>>>>,
          <<NumVec(<<0, 0>>), <<Tiny, Frac(1, 2)>>>>,
          <<NumVec(<<0, 0>>), <<Tiny, Tiny>>>>}
    ELSE {<<NumVec(<<0, 0, 0>>), NumVec(<<10, 100, 50>>)>>,
          <<NumVec(<<1, 2, 3>>), NumVec(<<1, 2, 3>>)>>,
          <<NumVec(<<0, 0, 0>>), NumVec(<<10, 0, 0>>)>>}

NewViewer(canvas_size, grid, ndisplay, dims_ndim, nlayers, layers_extent) ==
    [canvas_size |-> canvas_size, grid |-> grid, ndisplay |-> ndisplay,
     dims_ndim |-> dims_ndim, nlayers |-> nlayers,
     layers_extent |-> layers_extent]

\* no layer: the extent of the layers is not read
NoExtent == <<<<>>, <<>>>>

ViewerInputs ==
    {NewViewer(c, g, nd, n, 0, NoExtent) :
        c \in CanvasInputs, g \in GridInputs, nd \in {2, 3}, n \in {2, 3}}
    \cup UNION {
        {NewViewer(c, g, nd, n, 4, e) :
            c \in CanvasInputs, g \in GridInputs,
            e \in ExtentInputs(IF nd < n THEN nd ELSE n)} :
        nd \in {2, 3}, n \in {2, 3}}

MarginInputs ==
    {NumZero, Frac(1, 20), Frac(1, 2), NumOne, Frac(-1, 20), Frac(3, 2),
     NumNaN}

NoVCall == [op |-> "", margin |-> NumZero, reset_camera_angle |-> FALSE]

\* (None, None), returned normally
NoPoints == [start_point |-> Nothing, end_point |-> Nothing, err |-> ""]

InitRayIdle ==
    /\ ray_args = [l |-> [constructed |-> FALSE], position |-> <<>>, view_direction |-> <<>>,
                   dims_displayed |-> <<>>, world |-> FALSE]
    /\ ray_result = NoPoints
    /\ ray_done = FALSE

\* the class as the module defines it, and no instance yet
NoShapeCall ==
    [op |-> "", err |-> "", saved |-> <<>>, tried |-> <<>>,
     before |-> [constructed |-> FALSE], mask |-> <<>>,
     args |-> [face |-> FALSE, edge |-> FALSE, throws |-> {}, vec |-> <<>>,
               mat |-> <<>>, center |-> <<>>, n |-> 0]]

InitSlicerIdle == slicer = [next_id |-> 0, pending |-> {}]

NoNorm == [arg |-> <<>>, done |-> FALSE, err |-> "", result |-> <<>>]

InitNormIdle == norm = NoNorm

InitShapeIdle ==
    /\ TRIANGULATION_BACKEND = "pure_python"
    /\ modules = [bermuda |-> FALSE, partsegcore |-> FALSE,
                  triangle |-> FALSE]
    /\ cls = [set_meshes |-> "_set_meshes",
              triangulate_edge |-> "_triangulate_edge"]
    /\ shape = [constructed |-> FALSE]
    /\ shcall = NoShapeCall

InitViewerIdle ==
    /\ viewer = NewViewer(DefaultCanvasSize,
                          [enabled |-> FALSE, actual_shape |-> <<1, 1>>,
                           spacing_pixels |-> 0], 2, 2, 0, NoExtent)
    /\ camera = NewCamera
    /\ vlog = <<>>
    /\ verr = ""
    /\ vcall = NoVCall

(***************************************************************************)
(* SpecDims: _world_to_layer_dims_impl applied to every permutation of a   *)
(* world of up to MaxPermNdim dims, for every layer dimensionality.        *)
(***************************************************************************)
NoLayer == [constructed |-> FALSE]

\* the events and hooks of a layer
LayerEvents ==
    {"_extent_augmented", "set_view_slice", "set_data", "_update_thumbnail",
     "_set_highlight", "reload", "mode", "mouse_pan", "help", "visible",
     "scale", "translate", "rotate", "shear", "affine", "units", "loaded"}

InitLayerIdle ==
    /\ observed = {}
    /\ layer = NoLayer
    /\ fx = {}
    /\ err = ""
    /\ call = NoCall
    /\ async_ = FALSE

InitDimsIdle ==
    /\ wl_args = [world_dims |-> <<0>>, ndim_world |-> 1, ndim |-> 1]
    /\ wl_result = <<>>
    /\ wl_done = FALSE

InitDims ==
    /\ \E nw \in 1..MaxPermNdim, n \in 1..MaxPermNdim :
         \E p \in PermsOf(nw) :
            wl_args = [world_dims |-> p, ndim_world |-> nw, ndim |-> n]
    /\ wl_result = <<>>
    /\ wl_done = FALSE
    /\ InitLayerIdle
    /\ InitRayIdle
    /\ InitShapeIdle
    /\ InitSlicerIdle
    /\ InitNormIdle
    /\ InitViewerIdle

CallWorldToLayerDims ==
    /\ ~wl_done
    /\ wl_done' = TRUE
    /\ wl_result' = world_to_layer_dims_impl(
            wl_args.world_dims, wl_args.ndim_world, wl_args.ndim)
    /\ UNCHANGED <<wl_args, layerVars, viewerVars, rayVars, shapeVars,
                   slicerVars, normVars>>

NextDims == CallWorldToLayerDims

SpecDims == InitDims /\ [][NextDims]_vars

\* the position at which value v sits in the sequence s
IndexOf(s, v) == CHOOSE i \in DOMAIN s : s[i] = v

\* C1: for every permutation world_dims of 0..ndim_world-1 and every
\* ndim >= 1, the result of _world_to_layer_dims_impl is a permutation of
\* 0..ndim-1: exactly ndim entries, each index exactly once, lowest index 0.
C1_ResultIsPermutation ==
    wl_done =>
        /\ Len(wl_result) = wl_args.ndim
        /\ \A v \in 0..(wl_args.ndim - 1) :
              Cardinality({i \in DOMAIN wl_result : wl_result[i] = v}) = 1
        /\ \A i \in DOMAIN wl_result : wl_result[i] >= 0
        /\ \E i \in DOMAIN wl_result : wl_result[i] = 0

\* C1 witness: the function has returned for a world larger than the layer
\* whose dropped dims are not the leading entries of world_dims
C1_Witness ==
    /\ wl_done
    /\ wl_args.ndim_world > wl_args.ndim
    /\ wl_args.world_dims[1] >= wl_args.ndim_world - wl_args.ndim
    /\ wl_args.world_dims[Len(wl_args.world_dims)] < wl_args.ndim_world - wl_args.ndim

\* C2: the result matches the reference definition.  offset = 0: the input.
\* offset > 0: exactly the entries >= offset, each reduced by offset, in the
\* relative order they have in world_dims.  offset < 0: 0..|offset|-1 in
\* increasing order, then every input entry increased by |offset|.
C2_MatchesReference ==
    wl_done =>
        LET w      == wl_args.world_dims
            offset == wl_args.ndim_world - wl_args.ndim
            r      == wl_result
        IN  /\ offset = 0 => r = w
            /\ offset > 0 =>
                  /\ Len(r) = Cardinality({i \in DOMAIN w : w[i] >= offset})
                  /\ Range(r) = {w[i] - offset : i \in {j \in DOMAIN w : w[j] >= offset}}
                  /\ \A i, j \in DOMAIN r :
                        i < j => IndexOf(w, r[i] + offset) < IndexOf(w, r[j] + offset)
            /\ offset < 0 =>
                  /\ Len(r) = Len(w) - offset
                  /\ \A i \in 1..(-offset) : r[i] = i - 1
                  /\ \A i \in DOMAIN w : r[i - offset] = w[i] - offset
            /\ (w = <<2, 1, 0, 3>> /\ wl_args.ndim = 2) => r = <<0, 1>>
            /\ (w = <<2, 1, 0, 3>> /\ wl_args.ndim = 3) => r = <<1, 0, 2>>

\* C2 witness: the docstring's example, [2, 1, 0, 3] sliced to three dims
C2_Witness ==
    /\ wl_done
    /\ wl_result = <<1, 0, 2>>
    /\ wl_args.world_dims = <<2, 1, 0, 3>>
    /\ wl_args.ndim = 3


(***************************************************************************)
(* Layer operations.                                                       *)
(***************************************************************************)
\* np.all(scale): no component is zero
NpAll(v) == \A i \in DOMAIN v : v[i] # 0

\* the fields Layer.__init__ assigns before "self.mode = mode"
NewLayer(data, scale, translate, visible) ==
    LET ndim == Len(data)
    IN  [constructed    |-> TRUE,
         ndim           |-> ndim,
         data           |-> data,
         t              |-> DefaultTransforms(ndim, scale, translate),
         visible        |-> visible,
         visible_mode   |-> Nothing,
         mode           |-> PAN_ZOOM,
         editable       |-> TRUE,
         refresh_blocked |-> FALSE,
         slice_input    |-> [ndisplay    |-> 2,
                             world_slice |-> ThickNDSlice_make_full(ndim),
                             order       |-> Arange(ndim)],
         loaded         |-> TRUE,
         last_slice_id  |-> -1,
         extent         |-> Nothing,
         extent_augmented |-> Nothing,
         cursor         |-> "standard",
         mouse_pan      |-> TRUE,
         help           |-> "",
         transform_box_visible |-> FALSE,
         mouse_drag_callbacks |-> <<>>,
         mouse_move_callbacks |-> <<>>,
         mouse_double_click_callbacks |-> <<>>]

\* Layer.__init__: a scale with a zero component is refused; the transform
\* box overlay does not exist yet when "self.mode = mode" runs, so a mode
\* other than pan_zoom that the helper accepts ends in a KeyError
LayerInit(data, scale, visible, mode, obs) ==
    LET sc == IF scale = Nothing THEN Ones(Len(data)) ELSE scale[1]
        S0 == [l |-> NewLayer(data, sc, Zeros(Len(data)), visible),
               fx |-> {}, observed |-> obs]
    IN  IF scale # Nothing /\ ~NpAll(scale[1])
        THEN [ok |-> FALSE, err |-> "ValueError", S |-> S0]
        ELSE IF helper_mode(S0.l, mode) # PAN_ZOOM
        THEN [ok |-> FALSE, err |-> "KeyError", S |-> S0]
        ELSE [ok |-> TRUE, err |-> "", S |-> set_mode(S0, mode)]

\* Layer._make_slice_input; dims = None ends in an AttributeError at
\* "dims.order"
make_slice_input(l, dims) ==
    IF dims.none THEN [ok |-> FALSE, err |-> "AttributeError"]
    ELSE LET world_ndim  == dims.ndim
             world_slice == ThickNDSlice_from_dims(dims)
             order_array == IF dims.order = <<>> THEN Arange(world_ndim)
                            ELSE dims.order
             order == world_to_layer_dims_impl(order_array, world_ndim, l.ndim)
         IN  [ok |-> TRUE, err |-> "",
              value |-> [ndisplay    |-> dims.ndisplay,
                         world_slice |-> ThickNDSlice_last(world_slice, l.ndim),
                         order       |-> LastN(order, l.ndim)]]

\* Layer._slice_dims that re-slices on every call
slice_dims_always(S, dims, force) ==
    LET si == make_slice_input(S.l, dims).value
    IN  refresh_sync([S EXCEPT !.l.slice_input = si],
                     TRUE, TRUE, TRUE, TRUE, FALSE)

\* Layer._slice_dims, for a dims that _make_slice_input accepts
slice_dims(S, dims, force) ==
    LET si == make_slice_input(S.l, dims).value
    IN  IF force \/ S.l.slice_input # si
        THEN refresh_sync([S EXCEPT !.l.slice_input = si],
                          TRUE, TRUE, TRUE, TRUE, FALSE)
        ELSE S

\* Layer._update_dims, run by the data setter once the data is replaced
update_dims(S, async) ==
    LET ndim     == Len(S.l.data)
        old_ndim == S.l.ndim
        S1 == [S EXCEPT
                 !.l.t = ResizeTransforms(@, old_ndim, ndim),
                 !.l.slice_input = SliceInput_with_ndim(@, ndim),
                 !.l.ndim = ndim]
    IN  refresh(S1, async, TRUE, TRUE, TRUE, TRUE, FALSE)

\* what the transform setters share: the extent cache is cleared, then
\* refresh(extent=False), then the setter's event
after_transform_set(S, async, ev) ==
    Emit(refresh(clear_extent(S), async, TRUE, TRUE, TRUE, FALSE, FALSE), ev)

\* Layer.scale (setter): None stands for all ones
set_scale(S, async, scale) ==
    LET sc == IF scale = Nothing THEN Ones(S.l.ndim) ELSE scale[1]
    IN  after_transform_set([S EXCEPT !.l.t.scale = sc], async, "scale")

\* Layer.units (setter): nothing happens unless the units change
set_units(S, async, units) ==
    IF units # S.l.t.units
    THEN after_transform_set([S EXCEPT !.l.t.units = units], async, "units")
    ELSE S

\* Layer.extent computed afresh
ExtentOf(l) ==
    [data  |-> extent_data(l.data),
     world |-> get_extent_world(extent_data(l.data), l.t),
     step  |-> StepOf(l.t)]

(***************************************************************************)
(* Actions on the layer.                                                   *)
(***************************************************************************)
Commit(S, op) ==
    /\ layer' = S.l
    /\ fx' = S.fx
    /\ err' = ""
    /\ call' = op

Begin == [l |-> layer, fx |-> {}, observed |-> observed]

Construct(maxndim) ==
    /\ ~layer.constructed
    /\ \E data \in DataInputs(maxndim), visible \in BOOLEAN, mode \in Modes :
         \E scale \in {Nothing} \cup {Some(v) : v \in ScaleInputs(Len(data))} :
            LET r == LayerInit(data, scale, visible, mode, observed)
            IN  IF r.ok
                THEN Commit(r.S, NoCall)
                ELSE /\ err' = r.err
                     /\ call' = NoCall
                     /\ fx' = {}
                     /\ UNCHANGED layer
    /\ UNCHANGED <<dimsVars, viewerVars, async_, observed, rayVars, shapeVars,
                   slicerVars, normVars>>

SliceDims ==
    /\ layer.constructed
    /\ \E dims \in DimsInputs \cup {NoDims}, force \in BOOLEAN :
         LET c == [op |-> "_slice_dims", dims |-> dims, force |-> force]
         IN  IF make_slice_input(layer, dims).ok
             THEN Commit(slice_dims(Begin, dims, force), c)
             ELSE /\ err' = make_slice_input(layer, dims).err
                  /\ call' = c
                  /\ fx' = {}
                  /\ UNCHANGED layer
    /\ UNCHANGED <<dimsVars, viewerVars, async_, observed, rayVars, shapeVars,
                   slicerVars, normVars>>

SetData(maxndim) ==
    /\ layer.constructed
    /\ \E data \in DataInputs(maxndim) :
         Commit(update_dims([Begin EXCEPT !.l.data = data], async_),
                NoCall)
    /\ UNCHANGED <<dimsVars, viewerVars, async_, observed, rayVars, shapeVars,
                   slicerVars, normVars>>

SetVisible ==
    /\ layer.constructed
    /\ \E visible \in BOOLEAN :
         Commit(set_visible(Begin, async_, visible), NoCall)
    /\ UNCHANGED <<dimsVars, viewerVars, async_, observed, rayVars, shapeVars,
                   slicerVars, normVars>>

SetScale ==
    /\ layer.constructed
    /\ \E scale \in {Nothing} \cup {Some(v) : v \in ScaleInputs(layer.ndim)} :
         Commit(set_scale(Begin, async_, scale), NoCall)
    /\ UNCHANGED <<dimsVars, viewerVars, async_, observed, rayVars, shapeVars,
                   slicerVars, normVars>>

SetTranslate ==
    /\ layer.constructed
    /\ \E translate \in TranslateInputs(layer.ndim) :
         Commit(after_transform_set([Begin EXCEPT !.l.t.translate = translate],
                                    async_, "translate"),
                NoCall)
    /\ UNCHANGED <<dimsVars, viewerVars, async_, observed, rayVars, shapeVars,
                   slicerVars, normVars>>

SetRotate ==
    /\ layer.constructed
    /\ \E rotate \in RotateInputs(layer.ndim) :
         Commit(after_transform_set([Begin EXCEPT !.l.t.rotate = rotate],
                                    async_, "rotate"),
                NoCall)
    /\ UNCHANGED <<dimsVars, viewerVars, async_, observed, rayVars, shapeVars,
                   slicerVars, normVars>>

SetShear ==
    /\ layer.constructed
    /\ \E shear \in ShearInputs(layer.ndim) :
         Commit(after_transform_set([Begin EXCEPT !.l.t.shear = shear],
                                    async_, "shear"),
                NoCall)
    /\ UNCHANGED <<dimsVars, viewerVars, async_, observed, rayVars, shapeVars,
                   slicerVars, normVars>>

SetAffine ==
    /\ layer.constructed
    /\ \E affine \in AffineInputs(layer.ndim) :
         Commit(after_transform_set([Begin EXCEPT !.l.t.affine = affine],
                                    async_, "affine"),
                NoCall)
    /\ UNCHANGED <<dimsVars, viewerVars, async_, observed, rayVars, shapeVars,
                   slicerVars, normVars>>

SetUnits ==
    /\ layer.constructed
    /\ \E units \in UnitsInputs(layer.ndim) :
         Commit(set_units(Begin, async_, units), NoCall)
    /\ UNCHANGED <<dimsVars, viewerVars, async_, observed, rayVars, shapeVars,
                   slicerVars, normVars>>

\* reading the cached property Layer.extent
ReadExtent ==
    /\ layer.constructed
    /\ Commit([Begin EXCEPT !.l.extent =
                    IF @ = Nothing THEN Some(ExtentOf(layer)) ELSE @],
              NoCall)
    /\ UNCHANGED <<dimsVars, viewerVars, async_, observed, rayVars, shapeVars,
                   slicerVars, normVars>>

\* reading the cached property Layer._extent_augmented; the base layer's
\* _extent_data_augmented is its _extent_data
ReadExtentAugmented ==
    /\ layer.constructed
    /\ Commit([Begin EXCEPT !.l.extent_augmented =
                    IF @ = Nothing THEN Some(ExtentOf(layer)) ELSE @],
              NoCall)
    /\ UNCHANGED <<dimsVars, viewerVars, async_, observed, rayVars, shapeVars,
                   slicerVars, normVars>>

\* entering and leaving "with layer._block_refresh():"
EnterBlockRefresh ==
    /\ layer.constructed
    /\ ~layer.refresh_blocked
    /\ Commit([Begin EXCEPT !.l.refresh_blocked = TRUE], NoCall)
    /\ UNCHANGED <<dimsVars, viewerVars, async_, observed, rayVars, shapeVars,
                   slicerVars, normVars>>

ExitBlockRefresh ==
    /\ layer.constructed
    /\ layer.refresh_blocked
    /\ Commit([Begin EXCEPT !.l.refresh_blocked = FALSE], NoCall)
    /\ UNCHANGED <<dimsVars, viewerVars, async_, observed, rayVars, shapeVars,
                   slicerVars, normVars>>

\* the asynchronous slicing setting is switched
SetAsync ==
    /\ async_' = ~async_
    /\ fx' = {}
    /\ err' = ""
    /\ call' = NoCall
    /\ UNCHANGED <<dimsVars, viewerVars, layer, observed, rayVars, shapeVars,
                   slicerVars, normVars>>

\* a layer yet to be constructed, every event and hook observed
InitSlice ==
    /\ InitRayIdle
    /\ InitShapeIdle
    /\ InitSlicerIdle
    /\ InitNormIdle
    /\ InitDimsIdle
    /\ InitViewerIdle
    /\ observed = LayerEvents
    /\ layer = NoLayer
    /\ fx = {}
    /\ err = ""
    /\ call = NoCall
    /\ async_ = FALSE

\* a layer yet to be constructed, no observer connected
InitExtent ==
    /\ InitDimsIdle
    /\ InitLayerIdle
    /\ InitRayIdle
    /\ InitShapeIdle
    /\ InitSlicerIdle
    /\ InitNormIdle
    /\ InitViewerIdle

NextSlice ==
    \/ Construct(MaxNdim)
    \/ SliceDims
    \/ SetData(MaxNdim)
    \/ SetVisible

SpecSlice == InitSlice /\ [][NextSlice]_vars

NextExtent ==
    \/ Construct(MaxExtentNdim)
    \/ SetScale
    \/ SetTranslate
    \/ SetRotate
    \/ SetShear
    \/ SetAffine
    \/ SetUnits
    \/ SetData(MaxExtentNdim)
    \/ SetVisible
    \/ ReadExtent
    \/ ReadExtentAugmented
    \/ EnterBlockRefresh
    \/ ExitBlockRefresh
    \/ SetAsync

SpecExtent == InitExtent /\ [][NextExtent]_vars

(***************************************************************************)
(* Actions on the viewer (SpecViewer).                                     *)
(***************************************************************************)
CommitViewer(R, c) ==
    /\ camera' = R.cam
    /\ vlog' = R.log
    /\ verr' = R.err
    /\ vcall' = c
    /\ UNCHANGED <<dimsVars, layerVars, viewer, rayVars, shapeVars,
                   slicerVars, normVars>>

\* viewer.fit_to_view(margin=margin)
FitToView ==
    \E margin \in MarginInputs :
        CommitViewer(fit_to_view(viewer, ViewerRun(camera), margin),
                     [op |-> "fit_to_view", margin |-> margin,
                      reset_camera_angle |-> FALSE])

\* viewer.reset_view(margin=margin, reset_camera_angle=reset_camera_angle)
ResetView ==
    \E margin \in MarginInputs, reset_camera_angle \in BOOLEAN :
        CommitViewer(reset_view(viewer, ViewerRun(camera), margin,
                                reset_camera_angle),
                     [op |-> "reset_view", margin |-> margin,
                      reset_camera_angle |-> reset_camera_angle])

\* the user turns the camera: viewer.camera.angles = angles
SetAngles ==
    \E o \in Orientations :
        CommitViewer(Wrote(ViewerRun(camera), "angles",
                           set_angles(camera, o.angles)),
                     [NoVCall EXCEPT !.op = "angles"])

InitViewer ==
    /\ InitDimsIdle
    /\ InitRayIdle
    /\ InitShapeIdle
    /\ InitSlicerIdle
    /\ InitNormIdle
    /\ InitLayerIdle
    /\ viewer \in ViewerInputs
    /\ camera = NewCamera
    /\ vlog = <<>>
    /\ verr = ""
    /\ vcall = NoVCall

NextViewer ==
    \/ FitToView
    \/ ResetView
    \/ SetAngles

SpecViewer == InitViewer /\ [][NextViewer]_vars


(***************************************************************************)
(* Claims about slicing (SpecSlice).                                       *)
(***************************************************************************)
\* a step that is a call of _slice_dims which returned normally
SliceDimsReturned ==
    /\ layer.constructed
    /\ call'.op = "_slice_dims"
    /\ err' = ""
    /\ <<layer, fx, call>>' # <<layer, fx, call>>

\* C3 as stated: _slice_dims(dims, force) is a no-op when force is False
\* and the SliceInput built from dims equals the cached one (cached
\* _slice_input unchanged, extent cache not cleared, set_view_slice not
\* called, no set_data event); when force is True or the SliceInput
\* differs, the cached _slice_input is replaced by the new one and the view
\* slice is recomputed.
C3_Original ==
    [][SliceDimsReturned =>
        LET si == make_slice_input(layer, call'.dims).value
        IN  IF ~call'.force /\ si = layer.slice_input
            THEN layer' = layer /\ fx' = {}
            ELSE /\ layer'.slice_input = si
                 /\ "set_view_slice" \in fx'
                 /\ "set_data" \in fx']_vars

\* C3 amended: the no-op half as stated; when force is True or the
\* SliceInput differs, the cached _slice_input is replaced by the new one,
\* and the view slice is recomputed (extent cache cleared, set_view_slice
\* called, set_data emitted) if the layer is visible, while on an invisible
\* layer nothing but the cached _slice_input changes.
C3_SliceDimsGate ==
    [][SliceDimsReturned =>
        LET si == make_slice_input(layer, call'.dims).value
        IN  IF ~call'.force /\ si = layer.slice_input
            THEN layer' = layer /\ fx' = {}
            ELSE IF layer.visible
            THEN /\ layer' = [layer EXCEPT !.slice_input = si,
                                           !.extent = Nothing,
                                           !.extent_augmented = Nothing]
                 /\ {"set_view_slice", "set_data", "_extent_augmented"} \subseteq fx'
            ELSE /\ layer' = [layer EXCEPT !.slice_input = si]
                 /\ fx' = {}]_vars

\* C3 witness: a forced _slice_dims has returned on an invisible layer that
\* already held the slice input of these dims, and no hook was called
C3_Witness ==
    /\ layer.constructed
    /\ call.op = "_slice_dims"
    /\ call.force
    /\ err = ""
    /\ ~layer.visible
    /\ layer.slice_input = make_slice_input(layer, call.dims).value
    /\ fx = {}

\* C4: in every reachable state of a layer (after construction and any
\* sequence of _slice_dims and _update_dims calls, with a dims model of any
\* dimensionality), the cached SliceInput has an order of exactly
\* layer.ndim entries and a world_slice covering exactly layer.ndim dims.
C4_SliceInputNdim ==
    layer.constructed =>
        /\ Len(layer.slice_input.order) = layer.ndim
        /\ Len(layer.slice_input.world_slice.point) = layer.ndim
        /\ Len(layer.slice_input.world_slice.margin_left) = layer.ndim
        /\ Len(layer.slice_input.world_slice.margin_right) = layer.ndim

(***************************************************************************)
(* Claims about the extent cache and the scale (SpecExtent).               *)
(***************************************************************************)
\* C9: the cached layer extent is never stale: after any sequence of
\* assignments to scale, translate, rotate, shear, affine or units and of
\* data changes (_update_dims), visible or not, refresh blocked or not, the
\* next read of extent and of _extent_augmented equals the extent
\* recomputed from the current data extent and data-to-world transform.
C9_ExtentNeverStale ==
    layer.constructed =>
        /\ layer.extent # Nothing => layer.extent[1] = ExtentOf(layer)
        /\ layer.extent_augmented # Nothing =>
              layer.extent_augmented[1] = ExtentOf(layer)

\* C10: in every reachable state of a layer no component of its scale is
\* zero: a scale with a zero component is rejected with an error, by the
\* constructor and by the scale setter alike, and a rejected assignment
\* leaves the previous scale in place.
C10_ScaleNeverZero ==
    layer.constructed => NpAll(layer.t.scale)

(***************************************************************************)
(* Claims about the camera fit (SpecViewer).                               *)
(***************************************************************************)
\* fit_to_view, called directly or by reset_view, has returned normally
FitReturned ==
    /\ vcall.op \in {"fit_to_view", "reset_view"}
    /\ verr = ""

\* the scenario of C5: 2D display, grid off, layers spanning
\* [[0, 0], [100, 50]], canvas (800, 600), margin 0.05
C5_Scenario ==
    /\ FitReturned
    /\ viewer.ndisplay = 2
    /\ ~viewer.grid.enabled
    /\ viewer.nlayers > 0
    /\ viewer.layers_extent = <<NumVec(<<0, 0>>), NumVec(<<100, 50>>)>>
    /\ viewer.canvas_size = <<800, 600>>
    /\ vcall.margin = Frac(5, 100)

\* C5 as stated: in the scenario fit_to_view sets camera.zoom to
\* 0.95 * min(800/50, 600/100) and camera.center to (25, 50).
C5_Original ==
    C5_Scenario =>
        /\ camera.zoom = NumMul(Frac(95, 100),
                                NumMin2(Frac(800, 50), Frac(600, 100)))
        /\ camera.center = NumVec(<<25, 50>>)

\* C5 amended: in the scenario fit_to_view sets camera.zoom to
\* 0.95 * min(800/100, 600/50) = 7.6 (each canvas axis divided by the scene
\* size of the same axis) and camera.center to (50, 25).
C5_FitScenario ==
    C5_Scenario =>
        /\ camera.zoom = NumMul(Frac(95, 100),
                                NumMin2(Frac(800, 100), Frac(600, 50)))
        /\ camera.zoom = Frac(76, 10)
        /\ camera.center = NumVec(<<50, 25>>)

\* C5 witness: fit_to_view has returned in the scenario
C5_Witness == C5_Scenario /\ vcall.op = "fit_to_view"

\* 0 <= m < 1 for a number m that is not nan
InUnitInterval(m) ==
    /\ ~IsNaN(m)
    /\ ~NumLess(m, NumZero)
    /\ NumLess(m, NumOne)

\* what min(viewbox / size) is in the state, whichever branch applies
ZoomAtFullScale ==
    camera_zoom(viewer, camera, get_scene_parameters(viewer), NumOne)

\* C6: fit_to_view(margin) and reset_view(margin) raise ValueError exactly
\* when margin is outside [0, 1), and for every margin in [0, 1) return
\* normally with the zoom scaled by 1 - margin.
C6_MarginValidation ==
    vcall.op \in {"fit_to_view", "reset_view"} =>
        IF InUnitInterval(vcall.margin)
        THEN /\ verr = ""
             /\ camera.zoom =
                    NumMul(NumSub(NumOne, vcall.margin), ZoomAtFullScale)
        ELSE verr = "ValueError"

\* C6 witness: reset_view has raised for margin = 1, the excluded end of the
\* interval, after a fit with margin = 0 had set the zoom
C6_Witness ==
    /\ vcall.op = "reset_view"
    /\ vcall.margin = NumOne
    /\ verr = "ValueError"
    /\ camera.zoom # NumOne

\* the scene has size zero on every axis
ZeroScene ==
    LET extent == sliced_extent_world_augmented(viewer)
    IN  \A i \in DOMAIN extent[1] : extent[2][i] = extent[1][i]

\* C7: when the scene size is zero on every axis, fit_to_view sets
\* camera.zoom to (1 - margin) * min(canvas_size), in 2D and in 3D display,
\* grid mode enabled or not.
C7_DegenerateZoom ==
    (FitReturned /\ ZeroScene) =>
        camera.zoom =
            NumMul(NumSub(NumOne, vcall.margin),
                   NumInt(IF viewer.canvas_size[1] < viewer.canvas_size[2]
                          THEN viewer.canvas_size[1]
                          ELSE viewer.canvas_size[2]))

\* C7 witness: a zero-size scene fitted in 3D display with the grid enabled
\* and a non-zero margin
C7_Witness ==
    /\ FitReturned
    /\ ZeroScene
    /\ viewer.ndisplay = 3
    /\ viewer.grid.enabled
    /\ viewer.grid.actual_shape # <<1, 1>>
    /\ vcall.margin = Frac(1, 2)

\* the viewbox as C8 states it
C8_Viewbox ==
    IF viewer.grid.enabled
    THEN [i \in 1..2 |->
            NumDiv(NumInt(viewer.canvas_size[i]
                            - viewer.grid.spacing_pixels
                                * (viewer.grid.actual_shape[i] - 1)),
                   NumInt(viewer.grid.actual_shape[i]))]
    ELSE [i \in 1..2 |-> NumInt(viewer.canvas_size[i])]

\* the last two components of the scene size
C8_SceneSize == LastN(get_scene_parameters(viewer).scene_size, 2)

\* 2D display, a scene that is not of size zero on every axis
C8_Case ==
    /\ FitReturned
    /\ viewer.ndisplay = 2
    /\ ~ZeroScene

\* C8 as stated: in 2D display with a non-degenerate scene
\* zoom = (1 - margin) * min(viewbox / s), s the last two scene-size
\* components with every zero component replaced by 1.
C8_Original ==
    C8_Case =>
        LET s == [i \in 1..2 |->
                    IF C8_SceneSize[i] = NumZero THEN NumOne
                    ELSE C8_SceneSize[i]]
        IN  camera.zoom =
                NumMul(NumSub(NumOne, vcall.margin),
                       NumMin2(NumDiv(C8_Viewbox[1], s[1]),
                               NumDiv(C8_Viewbox[2], s[2])))

\* C8 amended: in 2D display with a non-degenerate scene
\* zoom = (1 - margin) * min(viewbox / s), s the last two scene-size
\* components with every component within 1e-8 of zero (np.isclose)
\* replaced by 1; the viewbox as stated.
C8_Zoom2D ==
    C8_Case =>
        LET s == [i \in 1..2 |->
                    IF NumLeq(NumAbs(C8_SceneSize[i]), Norm(1, 1, -8))
                    THEN NumOne
                    ELSE C8_SceneSize[i]]
        IN  camera.zoom =
                NumMul(NumSub(NumOne, vcall.margin),
                       NumMin2(NumDiv(C8_Viewbox[1], s[1]),
                               NumDiv(C8_Viewbox[2], s[2])))

\* C8 witness: a scene with one axis of size 1e-9 fitted in 2D display with
\* the grid enabled, the replaced axis deciding the zoom
C8_Witness ==
    /\ C8_Case
    /\ viewer.grid.enabled
    /\ viewer.grid.spacing_pixels > 0
    /\ C8_SceneSize[1] = Tiny
    /\ camera.zoom = NumMul(NumSub(NumOne, vcall.margin), C8_Viewbox[1])

(***************************************************************************)
(* Layer.get_ray_intersections.  find_front_back_face and                  *)
(* intersect_line_with_axis_aligned_bounding_box_3d live in                *)
(* napari/utils/geometry.py and the inverse of the transform chain in      *)
(* napari/utils/transforms; they are modelled from the specification, for  *)
(* transforms without rotation or shear and for view directions along one  *)
(* axis (or along none).                                                   *)
(***************************************************************************)
\* v[dims] : numpy indexing with a list of (0-based) indices
Take(v, dims) == [i \in DOMAIN dims |-> v[dims[i] + 1]]

\* self._transforms[1:].simplified.inverse(coords), no rotation, no shear
InverseTransform(t, coords) ==
    [i \in DOMAIN coords |->
        NumDiv(NumSub(NumDiv(NumSub(coords[i], NumInt(t.affine.translate[i])),
                             NumInt(t.affine.k)),
                      NumInt(t.translate[i])),
               NumInt(t.scale[i]))]

\* Layer.world_to_data
world_to_data(l, position) ==
    LET coords == IF Len(position) >= l.ndim THEN LastN(position, l.ndim)
                  ELSE [i \in 1..(l.ndim - Len(position)) |-> NumZero]
                       \o position
    IN  InverseTransform(l.t, coords)

\* np.linalg.norm of a vector with at most one component that is not zero
AxisNorm(v) ==
    IF \E i \in DOMAIN v : IsNaN(v[i]) THEN NumNaN
    ELSE IF \E i \in DOMAIN v : v[i] # NumZero
    THEN NumAbs(v[CHOOSE i \in DOMAIN v : v[i] # NumZero])
    ELSE NumZero

\* v / np.linalg.norm(v)
Normalized(v) == [i \in DOMAIN v |-> NumDiv(v[i], AxisNorm(v))]

\* Layer._world_to_data_ray
world_to_data_ray(l, vector) ==
    LET p1 == world_to_data(l, vector)
        p0 == world_to_data(l, [i \in DOMAIN vector |-> NumZero])
    IN  Normalized([i \in DOMAIN p1 |-> NumSub(p1[i], p0[i])])

\* Layer._world_to_displayed_data_ray
world_to_displayed_data_ray(l, vector_world, dims_displayed) ==
    Normalized(Take(world_to_data_ray(l, vector_world), dims_displayed))

\* Layer._world_to_displayed_data
world_to_displayed_data(l, position, dims_displayed) ==
    Take(world_to_data(l, position), dims_displayed)

\* Layer._display_bounding_box: one <<min, max>> per displayed dim
display_bounding_box(l, dims_displayed) ==
    LET e == extent_data(l.data)
    IN  [i \in DOMAIN dims_displayed |->
            <<e[1][dims_displayed[i] + 1], e[2][dims_displayed[i] + 1]>>]

\* the six face normals of the box along axis k: -e_k and +e_k
FaceNormal(k, s) == [i \in 1..3 |-> IF i = k THEN s ELSE 0]

\* the click lies, along the view direction, over the face of normal
\* FaceNormal(k, s): its other two coordinates are inside the box
OverFace(click, bounding_box, k) ==
    \A i \in (1..3) \ {k} :
        /\ NumLeq(NumInt(bounding_box[i][1]), click[i])
        /\ NumLeq(click[i], NumInt(bounding_box[i][2]))

\* find_front_back_face: the face whose normal opposes the view direction
\* and the face whose normal follows it, each only if the click is over it
find_front_back_face(click, bounding_box, view_dir) ==
    LET threshold == Norm(1, 1, -3)
        fronts == {<<k, s>> \in (1..3) \X {-1, 1} :
                     /\ NumLess(NumMul(NumInt(s), view_dir[k]),
                                NumNeg(threshold))
                     /\ OverFace(click, bounding_box, k)}
        backs  == {<<k, s>> \in (1..3) \X {-1, 1} :
                     /\ NumLess(threshold, NumMul(NumInt(s), view_dir[k]))
                     /\ OverFace(click, bounding_box, k)}
        pick(S) == IF S = {} THEN Nothing
                   ELSE LET f == CHOOSE f \in S : TRUE
                        IN  Some(FaceNormal(f[1], f[2]))
    IN  [front |-> pick(fronts), back |-> pick(backs)]

\* intersect_line_with_axis_aligned_bounding_box_3d: where the line meets
\* the plane of the face with the given normal
intersect_line_with_axis_aligned_bounding_box_3d(click, view_dir, bounding_box, normal) ==
    LET k == CHOOSE k \in 1..3 : normal[k] # 0
        c == IF normal[k] > 0 THEN bounding_box[k][2] ELSE bounding_box[k][1]
        t == NumDiv(NumSub(NumInt(c), click[k]), view_dir[k])
    IN  [i \in 1..3 |-> NumAdd(click[i], NumMul(t, view_dir[i]))]

\* position.copy() with position[dims] = values
Put(position, dims, values) ==
    [i \in DOMAIN position |->
        IF \E j \in DOMAIN dims : dims[j] + 1 = i
        THEN values[CHOOSE j \in DOMAIN dims : dims[j] + 1 = i]
        ELSE position[i]]

\* Layer._get_ray_intersections
get_ray_intersections_impl(l, position, view_direction, dims_displayed, bounding_box, world) ==
    LET view_dir == IF world
                    THEN world_to_displayed_data_ray(l, view_direction,
                                                     dims_displayed)
                    ELSE Take(view_direction, dims_displayed)
        click_pos_data ==
            IF world
            THEN world_to_displayed_data(l, position, dims_displayed)
            ELSE Take(position, dims_displayed)
        faces == find_front_back_face(click_pos_data, bounding_box, view_dir)
    IN  IF Len(dims_displayed) # 3
        THEN \* np.dot of the view direction with a 3-vector face normal
             [NoPoints EXCEPT !.err = "ValueError"]
        ELSE IF faces.front = Nothing /\ faces.back = Nothing THEN NoPoints
        ELSE IF faces.front = Nothing \/ faces.back = Nothing
        THEN \* a face normal of None handed to the intersection routine
             [NoPoints EXCEPT !.err = "TypeError"]
        ELSE [start_point |->
                Some(Put(position, dims_displayed,
                         intersect_line_with_axis_aligned_bounding_box_3d(
                             click_pos_data, view_dir, bounding_box,
                             faces.front[1]))),
              end_point |->
                Some(Put(position, dims_displayed,
                         intersect_line_with_axis_aligned_bounding_box_3d(
                             click_pos_data, view_dir, bounding_box,
                             faces.back[1]))),
              err |-> ""]

\* a slip: the number of displayed dims is not looked at
get_ray_intersections_unguarded(l, position, view_direction, dims_displayed, world) ==
    LET box == display_bounding_box(l, dims_displayed)
    IN  get_ray_intersections_impl(
            l, position, view_direction, dims_displayed,
            [i \in DOMAIN box |-> <<box[i][1], box[i][2] + 1>>], world)

\* Layer.get_ray_intersections
get_ray_intersections(l, position, view_direction, dims_displayed, world) ==
    IF Len(dims_displayed) # 3 THEN NoPoints
    ELSE LET box == display_bounding_box(l, dims_displayed)
         IN  get_ray_intersections_impl(
                l, position, view_direction, dims_displayed,
                [i \in DOMAIN box |-> <<box[i][1], box[i][2] + 1>>], world)

(***************************************************************************)
(* SpecRay: get_ray_intersections called once on a layer of three or four  *)
(* dims, for every number of displayed dims, in world and in data          *)
(* coordinates.                                                            *)
(***************************************************************************)
UnitVector(n, k, s) == [i \in 1..n |-> IF i = k THEN s ELSE 0]

RayLayerInputs ==
    {NewLayer(data, scale, translate, TRUE) :
        <<data, scale, translate>> \in
            UNION {{<<[i \in 1..n |-> i + 2], sc, tr>> :
                        sc \in {Ones(n), [i \in 1..n |-> 2]},
                        tr \in {Zeros(n), [i \in 1..n |-> i]}} :
                   n \in {3, 4}}}

DimsDisplayedInputs(n) ==
    {<<>>, <<n - 1>>, <<n - 2, n - 1>>, <<n - 3, n - 2, n - 1>>}
    \cup (IF n > 3 THEN {<<0, 1, 2, 3>>, <<0, 2, 3>>} ELSE {})

PositionInputs(n) ==
    {[i \in 1..n |-> 1], [i \in 1..n |-> -3],
     [i \in 1..n |-> IF i = n THEN 9 ELSE 1]}

ViewDirectionInputs(n) ==
    {UnitVector(n, k, s) : k \in 1..n, s \in {-1, 1}} \cup {Zeros(n)}

InitRay ==
    /\ \E l \in RayLayerInputs :
         \E dims_displayed \in DimsDisplayedInputs(l.ndim),
            position \in PositionInputs(l.ndim),
            view_direction \in ViewDirectionInputs(l.ndim),
            world \in BOOLEAN :
            ray_args = [l |-> l, position |-> position,
                        view_direction |-> view_direction,
                        dims_displayed |-> dims_displayed, world |-> world]
    /\ ray_result = NoPoints
    /\ ray_done = FALSE
    /\ InitDimsIdle
    /\ InitLayerIdle
    /\ InitViewerIdle
    /\ InitShapeIdle
    /\ InitSlicerIdle
    /\ InitNormIdle

CallGetRayIntersections ==
    /\ ~ray_done
    /\ ray_done' = TRUE
    /\ ray_result' = get_ray_intersections(
            ray_args.l, NumVec(ray_args.position),
            NumVec(ray_args.view_direction), ray_args.dims_displayed,
            ray_args.world)
    /\ UNCHANGED <<ray_args, dimsVars, layerVars, viewerVars, shapeVars,
                   slicerVars, normVars>>

NextRay == CallGetRayIntersections

SpecRay == InitRay /\ [][NextRay]_vars

\* the faces find_front_back_face reports for the call, in data coordinates
RayFaces ==
    LET a   == ray_args
        box == display_bounding_box(a.l, a.dims_displayed)
    IN  find_front_back_face(
            IF a.world
            THEN world_to_displayed_data(a.l, NumVec(a.position),
                                         a.dims_displayed)
            ELSE Take(NumVec(a.position), a.dims_displayed),
            [i \in DOMAIN box |-> <<box[i][1], box[i][2] + 1>>],
            IF a.world
            THEN world_to_displayed_data_ray(a.l, NumVec(a.view_direction),
                                             a.dims_displayed)
            ELSE Take(NumVec(a.view_direction), a.dims_displayed))

\* C11: get_ray_intersections returns (None, None) without raising for
\* every dims_displayed whose length is not 3, whatever the position, the
\* view direction and the world flag; and it returns (None, None) whenever
\* the ray has neither a front nor a back face on the bounding box.
C11_NoIntersection ==
    ray_done =>
        /\ Len(ray_args.dims_displayed) # 3 => ray_result = NoPoints
        /\ (/\ Len(ray_args.dims_displayed) = 3
            /\ RayFaces.front = Nothing
            /\ RayFaces.back = Nothing) => ray_result = NoPoints
        /\ ray_result.start_point = Nothing <=> ray_result.end_point = Nothing

\* C11 witness: (None, None) returned for a 4-D layer with four displayed
\* dims and world coordinates
C11_Witness ==
    /\ ray_done
    /\ ray_args.l.ndim = 4
    /\ Len(ray_args.dims_displayed) = 4
    /\ ray_args.world
    /\ ray_result = NoPoints

(***************************************************************************)
(* Shapes (napari/layers/shapes/_shapes_models/shape.py).  A vertex is a   *)
(* sequence of integers, the data of a shape a sequence of vertices; a     *)
(* mesh is a sequence of vertices and a sequence of index triples.         *)
(***************************************************************************)
\* the values of TriangulationBackend that Shape.__new__ distinguishes
Backends ==
    {"pure_python", "bermuda", "partsegcore", "triangle", "fastest_available"}

\* the routines Shape.__new__ can bind to cls._set_meshes
MeshRoutines ==
    {"_set_meshes_compiled_bermuda", "_set_meshes_compiled_partseg",
     "_set_meshes_triangle", "_set_meshes_py"}

Shape_new_bermuda_first(c, backend, mods) ==
    IF backend = "bermuda"
    THEN [c EXCEPT !.set_meshes = "_set_meshes_compiled_bermuda",
                   !.triangulate_edge = "_triangulate_edge_bermuda"]
    ELSE IF backend = "partsegcore"
    THEN [c EXCEPT !.set_meshes = "_set_meshes_compiled_partseg",
                   !.triangulate_edge = "_triangulate_edge_partseg"]
    ELSE IF backend = "triangle" /\ mods.triangle
    THEN [c EXCEPT !.set_meshes = "_set_meshes_triangle"]
    ELSE IF backend = "fastest_available" /\ mods.bermuda
    THEN [c EXCEPT !.set_meshes = "_set_meshes_compiled_bermuda",
                   !.triangulate_edge = "_triangulate_edge_bermuda"]
    ELSE [c EXCEPT !.set_meshes = "_set_meshes_py"]

\* Shape.__new__: the class attributes after the binding
Shape_new(c, backend, mods) ==
    IF backend \in {"bermuda", "fastest_available"} /\ mods.bermuda
    THEN [c EXCEPT !.set_meshes = "_set_meshes_compiled_bermuda",
                   !.triangulate_edge = "_triangulate_edge_bermuda"]
    ELSE IF backend \in {"partsegcore", "fastest_available"}
            /\ mods.partsegcore
    THEN [c EXCEPT !.set_meshes = "_set_meshes_compiled_partseg",
                   !.triangulate_edge = "_triangulate_edge_partseg"]
    ELSE IF backend \in {"triangle", "fastest_available"} /\ mods.triangle
    THEN [c EXCEPT !.set_meshes = "_set_meshes_triangle"]
    ELSE [c EXCEPT !.set_meshes = "_set_meshes_py"]

\* the library a routine of the class calls into
LibraryOf(routine) ==
    CASE routine \in {"_set_meshes_compiled_bermuda",
                      "_triangulate_edge_bermuda"} -> "bermuda"
      [] routine \in {"_set_meshes_compiled_partseg",
                      "_triangulate_edge_partseg"} -> "partsegcore"
      [] routine = "_set_meshes_triangle" -> "triangle"
      [] OTHER -> "pure_python"

VecAdd(a, b) == [i \in DOMAIN a |-> a[i] + b[i]]

VecSub(a, b) == [i \in DOMAIN a |-> a[i] - b[i]]

VecScale(k, a) == [i \in DOMAIN a |-> k * a[i]]

\* data[:, dims]
Columns(data, dims) == [i \in DOMAIN data |-> Take(data[i], dims)]

InsertColumn_dropped(vertices, axis, value) == vertices

\* np.insert(vertices, axis, value, axis=1)
InsertColumn(vertices, axis, value) ==
    [i \in DOMAIN vertices |->
        [k \in 1..(Len(vertices[i]) + 1) |->
            IF k < axis + 1 THEN vertices[i][k]
            ELSE IF k = axis + 1 THEN value
            ELSE vertices[i][k - 1]]]

EmptyMesh == [vertices |-> <<>>, triangles |-> <<>>]

EmptyEdge == [centers |-> <<>>, offsets |-> <<>>, triangles |-> <<>>]

\* remove_path_duplicates: consecutive equal vertices are dropped, and for a
\* closed path a last vertex equal to the first
RECURSIVE DropRepeats(_)
DropRepeats(data) ==
    IF Len(data) < 2 THEN data
    ELSE IF data[1] = data[2] THEN DropRepeats(Tail(data))
    ELSE <<data[1]>> \o DropRepeats(Tail(data))

remove_path_duplicates(data, closed) ==
    LET d == DropRepeats(data)
    IN  IF closed /\ Len(d) > 1 /\ d[1] = d[Len(d)]
        THEN SubSeq(d, 1, Len(d) - 1)
        ELSE d

\* find_planar_axis: <<data2d, axis, value>>; 2-D data is passed through,
\* 3-D data confined to an axis-aligned plane loses its constant column,
\* any other 3-D data gives no vertices at all
find_planar_axis(data) ==
    LET ndim == Len(data[1])
        flat == {a \in 0..(ndim - 1) :
                    \A i \in DOMAIN data : data[i][a + 1] = data[1][a + 1]}
    IN  IF ndim = 2 THEN <<data, Nothing, Nothing>>
        ELSE IF flat = {} THEN <<<<>>, Nothing, Nothing>>
        ELSE LET axis == CHOOSE a \in flat : \A b \in flat : a <= b
             IN  <<Columns(data, [k \in 1..(ndim - 1) |->
                                     IF k - 1 < axis THEN k - 1 ELSE k]),
                   Some(axis), Some(data[1][axis + 1])>>

\* is_collinear: fewer than three vertices, or all on one line
is_collinear(points) ==
    \/ Len(points) < 3
    \/ \A i \in 3..Len(points) :
          LET u == VecSub(points[2], points[1])
              w == VecSub(points[i], points[1])
          IN  u[1] * w[2] - u[2] * w[1] = 0

\* triangulate_face: a fan over the vertices
triangulate_face(data2d) ==
    [vertices  |-> data2d,
     triangles |-> [i \in 1..(Len(data2d) - 2) |-> <<1, i + 1, i + 2>>]]

\* triangulate_edge: a ribbon along the path.  Every vertex of the path
\* gives two mesh vertices whose centers are the vertex itself and whose
\* offsets point to either side of the path; each segment gives two
\* triangles.  The offsets are left unnormalised and are computed from the
\* neighbouring vertices.
EdgeOffset(data, i, closed) ==
    LET n    == Len(data)
        prev == IF i > 1 THEN data[i - 1]
                ELSE IF closed THEN data[n] ELSE data[1]
        next == IF i < n THEN data[i + 1]
                ELSE IF closed THEN data[1] ELSE data[n]
        d    == VecSub(next, prev)
    IN  [k \in DOMAIN d |->
            IF k = 1 THEN -d[2] ELSE IF k = 2 THEN d[1] ELSE 0]

triangulate_edge(data, closed) ==
    LET n    == Len(data)
        segs == IF n < 2 THEN 0 ELSE IF closed THEN n ELSE n - 1
        At(j) == ((j - 1) % (2 * n)) + 1
    IN  [centers   |-> [j \in 1..(2 * n) |-> data[(j + 1) \div 2]],
         offsets   |-> [j \in 1..(2 * n) |->
                          LET o == EdgeOffset(data, (j + 1) \div 2, closed)
                          IN  IF j % 2 = 1 THEN o ELSE VecScale(-1, o)],
         triangles |-> [t \in 1..(2 * segs) |->
                          LET i == (t + 1) \div 2
                          IN  IF t % 2 = 1
                              THEN <<At(2 * i - 1), At(2 * i), At(2 * i + 1)>>
                              ELSE <<At(2 * i), At(2 * i + 1),
                                     At(2 * i + 2)>>]]

\* triangulate_face_and_edges: the face of planar data, with the constant
\* coordinate put back, and the edge of the closed path
triangulate_face_and_edges(data) ==
    LET p    == find_planar_axis(data)
        fan  == triangulate_face(p[1])
        face == IF is_collinear(p[1]) THEN EmptyMesh
                ELSE IF p[2] # Nothing
                THEN [fan EXCEPT !.vertices =
                         InsertColumn(fan.vertices, p[2][1], p[3][1])]
                ELSE fan
    IN  [face |-> face, edge |-> triangulate_edge(data, TRUE)]

(***************************************************************************)
(* The mesh routines.  A run is the shape as the routine leaves it, the    *)
(* exception it raised ("" if none), the files it saved and the libraries  *)
(* it called, in order.  `throws' is the set of libraries whose            *)
(* triangulation raises on the data at hand.                               *)
(***************************************************************************)
MeshRun(s) == [s |-> s, err |-> "", saved |-> <<>>, tried |-> <<>>]

Called(R, lib) == [R EXCEPT !.tried = Append(@, lib)]

\* the exception of the library leaves the routine as it is
Threw(R, lib) == [Called(R, lib) EXCEPT !.err = "BackendError"]

\* _save_failed_triangulation, then RuntimeError naming the two paths
SavedAndRaised(R, lib) ==
    [Called(R, lib) EXCEPT !.err = "RuntimeError",
                           !.saved = <<"path", "text_path">>]

SetFace(R, mesh) ==
    [R EXCEPT !.s.face_vertices = mesh.vertices,
              !.s.face_triangles = mesh.triangles]

SetEdge(R, e) ==
    [R EXCEPT !.s.edge_vertices = e.centers,
              !.s.edge_offsets = e.offsets,
              !.s.edge_triangles = e.triangles]

set_empty_edge(R) == SetEdge(R, EmptyEdge)

set_empty_face(R) == SetFace(R, EmptyMesh)

\* the face of one polygon as a compiled library returns it
compiled_face(data) == triangulate_face_and_edges(data).face

set_meshes_compiled_3d(s, data, closed, face, edge, throws) ==
    LET R0 == MeshRun(s)
        R1 == IF ~face THEN set_empty_face(R0)
              ELSE IF "bermuda" \in throws THEN Threw(R0, "bermuda")
              ELSE SetFace(Called(R0, "bermuda"), compiled_face(data))
    IN  IF R1.err # "" THEN R1
        ELSE IF ~edge THEN set_empty_edge(R1)
        ELSE IF "pure_python" \in throws THEN Threw(R1, "pure_python")
        ELSE SetEdge(Called(R1, "pure_python"),
                     triangulate_edge(data, closed))

\* the body shared by the two compiled routines once the data is 2-D
set_meshes_compiled_2d(s, data, closed, face, edge, throws, lib) ==
    LET R0 == MeshRun(s)
    IN  IF edge /\ face
        THEN IF lib \in throws THEN SavedAndRaised(R0, lib)
             ELSE SetFace(SetEdge(Called(R0, lib),
                                  triangulate_edge(data, TRUE)),
                          compiled_face(data))
        ELSE LET R1 == IF ~edge THEN set_empty_edge(R0)
                       ELSE IF lib \in throws THEN Threw(R0, lib)
                       ELSE SetEdge(Called(R0, lib),
                                    triangulate_edge(data, closed))
             IN  IF R1.err # "" THEN R1
                 ELSE IF ~face THEN set_empty_face(R1)
                 ELSE IF lib \in throws THEN Threw(R1, lib)
                 ELSE SetFace(Called(R1, lib), compiled_face(data))

\* the body shared by _set_meshes_triangle and _set_meshes_py, which differ
\* in the library that triangulates the face
set_meshes_plain(s, data0, closed, face, edge, throws, lib) ==
    LET data == remove_path_duplicates(data0, closed)
        ndim == Len(data[1])
        R0   == MeshRun(s)
    IN  IF edge /\ face
        THEN IF lib \in throws THEN Threw(R0, lib)
             ELSE LET m == triangulate_face_and_edges(data)
                  IN  SetFace(SetEdge(Called(R0, lib), m.edge), m.face)
        ELSE LET R1 == IF ~edge THEN set_empty_edge(R0)
                       ELSE IF "pure_python" \in throws
                       THEN Threw(R0, "pure_python")
                       ELSE SetEdge(Called(R0, "pure_python"),
                                    triangulate_edge(data, closed))
                 p  == find_planar_axis(data)
                 R2 == set_empty_face(R1)
             IN  IF R1.err # "" THEN R1
                 ELSE IF face /\ ~is_collinear(p[1])
                 THEN IF lib \in throws THEN Threw(R2, lib)
                      ELSE LET m == triangulate_face(p[1])
                               v == IF ndim = 3 /\ p[2] # Nothing
                                       /\ p[3] # Nothing
                                    THEN InsertColumn(m.vertices, p[2][1],
                                                      p[3][1])
                                    ELSE m.vertices
                           IN  IF Len(m.triangles) > 0
                               THEN SetFace(Called(R2, lib),
                                            [m EXCEPT !.vertices = v])
                               ELSE Called(R2, lib)
                 ELSE R2

set_meshes_py(s, data, closed, face, edge, throws) ==
    set_meshes_plain(s, data, closed, face, edge, throws, "pure_python")

set_meshes_triangle(s, data, closed, face, edge, throws) ==
    set_meshes_plain(s, data, closed, face, edge, throws, "triangle")

set_meshes_compiled_bermuda(s, data, closed, face, edge, throws) ==
    IF Len(data[1]) = 3
    THEN set_meshes_compiled_3d(s, data, closed, face, edge, throws)
    ELSE set_meshes_compiled_2d(s, data, closed, face, edge, throws,
                                "bermuda")

set_meshes_compiled_partseg(s, data, closed, face, edge, throws) ==
    IF Len(data[1]) = 3
    THEN set_meshes_py(s, data, closed, face, edge, throws)
    ELSE set_meshes_compiled_2d(s, data, closed, face, edge, throws,
                                "partsegcore")

\* self._set_meshes(...): the attribute is looked up on the class when the
\* call is made
set_meshes(c, s, data, closed, face, edge, throws) ==
    CASE c.set_meshes = "_set_meshes_compiled_bermuda" ->
            set_meshes_compiled_bermuda(s, data, closed, face, edge, throws)
      [] c.set_meshes = "_set_meshes_compiled_partseg" ->
            set_meshes_compiled_partseg(s, data, closed, face, edge, throws)
      [] c.set_meshes = "_set_meshes_triangle" ->
            set_meshes_triangle(s, data, closed, face, edge, throws)
      [] c.set_meshes = "_set_meshes_py" ->
            set_meshes_py(s, data, closed, face, edge, throws)
      [] OTHER -> MeshRun(s)

\* self._triangulate_edge(...), looked up on the class in the same way
triangulate_edge_bound(c, data, closed, throws) ==
    LET lib == LibraryOf(c.triangulate_edge)
    IN  [lib |-> lib,
         err |-> IF lib \in throws THEN "BackendError" ELSE "",
         edge |-> triangulate_edge(data, closed)]

(***************************************************************************)
(* One shape.  Shape is abstract: the data setter and                      *)
(* _update_displayed_data belong to its subclasses, which all assign the   *)
(* data, take its bounding box and rebuild the meshes, the interaction box *)
(* and the slice key.                                                      *)
(***************************************************************************)
NoShape == [constructed |-> FALSE]

\* Shape.__init__; slice_key is annotated there but not assigned
Shape_init(edge_width, dims_order, ndisplay) ==
    [constructed       |-> TRUE,
     dims_order        |-> IF dims_order = <<>> THEN Arange(2)
                           ELSE dims_order,
     ndisplay          |-> ndisplay,
     slice_key_set     |-> FALSE,
     slice_key         |-> Nothing,
     face_vertices     |-> <<>>,
     face_triangles    |-> <<>>,
     edge_vertices     |-> <<>>,
     edge_offsets      |-> <<>>,
     edge_triangles    |-> <<>>,
     box               |-> <<>>,
     closed            |-> FALSE,
     filled            |-> TRUE,
     use_face_vertices |-> FALSE,
     edge_width        |-> edge_width,
     data              |-> <<>>,
     bounding_box      |-> <<>>,
     \* not fields of the object: whether its subclass assigns slice_key,
     \* the routine its class was bound to when it was constructed, and the
     \* number of operations applied to it
     keyed             |-> TRUE,
     built_with        |-> "",
     ops               |-> 0]

\* dims_order[-ndisplay:]
dims_displayed(s) == LastN(s.dims_order, s.ndisplay)

\* dims_order[:-ndisplay]
dims_not_displayed(s) == ButLastN(s.dims_order, s.ndisplay)

\* data[:, dims_displayed]
data_displayed(s) == Columns(s.data, dims_displayed(s))

\* [np.min(data, axis=0), np.max(data, axis=0)]
MinMax(data) ==
    <<[k \in DOMAIN data[1] |-> SetMin({data[i][k] : i \in DOMAIN data})],
      [k \in DOMAIN data[1] |-> SetMax({data[i][k] : i \in DOMAIN data})]>>

\* create_box: the corners of the interaction box of 2-D vertices
create_box(data) ==
    LET b == MinMax(data)
    IN  <<<<b[1][1], b[1][2]>>, <<b[1][1], b[2][2]>>,
          <<b[2][1], b[2][2]>>, <<b[2][1], b[1][2]>>>>

\* _update_displayed_data of the subclasses
update_displayed_data(c, s, throws) ==
    LET R == set_meshes(c, s, data_displayed(s), s.closed, s.filled, TRUE,
                        throws)
    IN  IF R.err # "" THEN R
        ELSE IF ~s.keyed
        THEN [R EXCEPT !.s.box = create_box(data_displayed(s))]
        ELSE [R EXCEPT !.s.box = create_box(data_displayed(s)),
                       !.s.slice_key_set = TRUE,
                       !.s.slice_key =
                           Some(Columns(s.bounding_box,
                                        dims_not_displayed(s)))]

\* the data setter of the subclasses
set_shape_data(c, s, data, throws) ==
    update_displayed_data(
        c,
        [s EXCEPT !.dims_order = IF Len(@) # Len(data[1])
                                 THEN Arange(Len(data[1])) ELSE @,
                  !.data = data,
                  !.bounding_box = MinMax(data)],
        throws)

\* the constructor of a subclass: Shape.__init__, the kind of the shape,
\* then the data
Shape_construct(c, data, edge_width, dims_order, kind, throws) ==
    set_shape_data(
        c,
        [Shape_init(edge_width, dims_order, kind.ndisplay)
            EXCEPT !.closed = kind.closed, !.filled = kind.filled,
                   !.keyed = kind.keyed, !.built_with = c.set_meshes],
        data, throws)

\* the ndisplay setter
set_ndisplay(c, s, ndisplay, throws) ==
    IF s.ndisplay = ndisplay THEN MeshRun(s)
    ELSE update_displayed_data(c, [s EXCEPT !.ndisplay = ndisplay], throws)

\* the dims_order setter
set_dims_order(c, s, dims_order, throws) ==
    IF s.dims_order = dims_order THEN MeshRun(s)
    ELSE update_displayed_data(c, [s EXCEPT !.dims_order = dims_order],
                               throws)

\* an edge_width setter that scales the stored offsets
set_edge_width_baked(s, edge_width) ==
    [s EXCEPT !.edge_width = edge_width,
              !.edge_offsets = [j \in DOMAIN @ |-> VecScale(edge_width, @[j])]]

\* the edge_width setter
set_edge_width(s, edge_width) == [s EXCEPT !.edge_width = edge_width]

\* the vertices _all_triangles draws for the edge:
\* _edge_vertices + edge_width * _edge_offsets
rendered_edge_vertices(s) ==
    [j \in DOMAIN s.edge_vertices |->
        VecAdd(s.edge_vertices[j], VecScale(s.edge_width, s.edge_offsets[j]))]

(***************************************************************************)
(* The geometric operations.  Each returns a run like the mesh routines;   *)
(* an operand of the wrong width stops the operation where numpy raises.   *)
(* Angles are multiples of 90 degrees, whose sine and cosine are taken as  *)
(* the integers they stand for.                                            *)
(***************************************************************************)
\* X @ T.T
Apply(T, X) ==
    [i \in DOMAIN X |->
        [k \in DOMAIN T |->
            SumTo([j \in 1..Len(T[k]) |-> T[k][j] * X[i][j]], Len(T[k]))]]

\* X + v
Translate(X, v) == [i \in DOMAIN X |-> VecAdd(X[i], v)]

\* the number of columns of a mesh array; an empty one is (0, ndisplay)
Width(s, X) == IF X = <<>> THEN s.ndisplay ELSE Len(X[1])

\* self._data[:, self.dims_displayed] = X
WithDisplayed(s, X) ==
    [i \in DOMAIN s.data |-> Put(s.data[i], dims_displayed(s), X[i])]

Raised(R, e) == [R EXCEPT !.err = e]

\* Shape.transform without the re-triangulation of the edge: the offsets
\* are mapped like the vertices
transform_linear_edge(c, s, T, throws) ==
    LET R0 == MeshRun([s EXCEPT !.box = Apply(T, @)])
    IN  IF Len(dims_displayed(s)) # 2 THEN Raised(R0, "ValueError")
        ELSE
        LET R1 == [R0 EXCEPT !.s.data =
                                WithDisplayed(s, Apply(T, data_displayed(s)))]
        IN  IF Width(s, s.face_vertices) # 2 THEN Raised(R1, "ValueError")
            ELSE [R1 EXCEPT !.s.face_vertices = Apply(T, @),
                            !.s.edge_vertices = Apply(T, @),
                            !.s.edge_offsets = Apply(T, @),
                            !.s.bounding_box = MinMax(R1.s.data)]

\* Shape.transform
transform(c, s, T, throws) ==
    LET R0 == MeshRun([s EXCEPT !.box = Apply(T, @)])
    IN  IF Len(dims_displayed(s)) # 2 THEN Raised(R0, "ValueError")
        ELSE
        LET R1 == [R0 EXCEPT !.s.data =
                                WithDisplayed(s, Apply(T, data_displayed(s)))]
        IN  IF Width(s, s.face_vertices) # 2 THEN Raised(R1, "ValueError")
            ELSE
            LET R2     == [R1 EXCEPT !.s.face_vertices = Apply(T, @)]
                points == remove_path_duplicates(data_displayed(R2.s),
                                                 s.closed)
                e      == triangulate_edge_bound(c, points, s.closed, throws)
                R3     == Called(R2, e.lib)
            IN  IF e.err # "" THEN Raised(R3, e.err)
                ELSE [SetEdge(R3, e.edge) EXCEPT
                         !.s.bounding_box = MinMax(R2.s.data)]

\* a shift that leaves the stored bounding box where it was
shift_stale_box(s, v) ==
    IF \/ Width(s, s.face_vertices) # Len(v)
       \/ Width(s, s.edge_vertices) # Len(v)
    THEN Raised(MeshRun(s), "ValueError")
    ELSE LET s1 == [s EXCEPT !.face_vertices = Translate(@, v),
                             !.edge_vertices = Translate(@, v),
                             !.box = Translate(@, v)]
         IN  IF Len(dims_displayed(s)) # Len(v)
             THEN Raised(MeshRun(s1), "ValueError")
             ELSE MeshRun(
                    [s1 EXCEPT
                        !.data = WithDisplayed(
                                    s, Translate(data_displayed(s), v))])

\* Shape.shift
shift(s, v) ==
    IF \/ Width(s, s.face_vertices) # Len(v)
       \/ Width(s, s.edge_vertices) # Len(v)
    THEN Raised(MeshRun(s), "ValueError")
    ELSE LET s1 == [s EXCEPT !.face_vertices = Translate(@, v),
                             !.edge_vertices = Translate(@, v),
                             !.box = Translate(@, v)]
         IN  IF Len(dims_displayed(s)) # Len(v)
             THEN Raised(MeshRun(s1), "ValueError")
             ELSE MeshRun(
                    [s1 EXCEPT
                        !.data = WithDisplayed(
                                    s, Translate(data_displayed(s), v)),
                        !.bounding_box =
                            [r \in 1..2 |->
                                Put(@[r], dims_displayed(s),
                                    VecAdd(Take(@[r], dims_displayed(s)),
                                           v))]])

\* shift(first); transform(T); shift(second), as far as no step raises
shift_transform_shift(c, s, first, T, second, throws) ==
    LET A == shift(s, first)
        B == transform(c, A.s, T, throws)
        C == shift(B.s, second)
    IN  IF A.err # "" THEN A
        ELSE IF B.err # "" THEN B
        ELSE [C EXCEPT !.tried = B.tried]

\* Shape.scale; the factor is <<k>> for the scalar k and <<k0, k1>> for a
\* list with one factor per axis
scale(c, s, factor, center, throws) ==
    LET T == IF Len(factor) = 1
             THEN <<<<factor[1], 0>>, <<0, factor[1]>>>>
             ELSE <<<<factor[1], 0>>, <<0, factor[2]>>>>
    IN  IF center = Nothing THEN transform(c, s, T, throws)
        ELSE shift_transform_shift(c, s, VecScale(-1, center[1]), T,
                                   center[1], throws)

\* the sine and the cosine of a multiple of 90 degrees
Sin90(angle) ==
    CASE angle % 360 = 0 -> 0
      [] angle % 360 = 90 -> 1
      [] angle % 360 = 180 -> 0
      [] angle % 360 = 270 -> -1

Cos90(angle) == Sin90(angle + 90)

\* a rotate that turns about the origin whatever the center
rotate_about_origin(c, s, angle, center, throws) ==
    transform(c, s, <<<<Cos90(angle), Sin90(angle)>>,
                      <<-Sin90(angle), Cos90(angle)>>>>, throws)

\* Shape.rotate
rotate(c, s, angle, center, throws) ==
    LET T == <<<<Cos90(angle), Sin90(angle)>>,
               <<-Sin90(angle), Cos90(angle)>>>>
    IN  IF center = Nothing THEN transform(c, s, T, throws)
        ELSE shift_transform_shift(c, s, VecScale(-1, center[1]), T,
                                   center[1], throws)

\* Shape.flip; the center is negated as it was passed, which a list does
\* not allow
flip(c, s, axis, center, as_list, throws) ==
    IF axis \notin {0, 1} THEN Raised(MeshRun(s), "ValueError")
    ELSE LET T == IF axis = 0 THEN <<<<1, 0>>, <<0, -1>>>>
                  ELSE <<<<-1, 0>>, <<0, 1>>>>
         IN  IF center = Nothing THEN transform(c, s, T, throws)
             ELSE IF as_list THEN Raised(MeshRun(s), "TypeError")
             ELSE shift_transform_shift(c, s, VecScale(-1, center[1]), T,
                                        VecScale(-1, center[1]), throws)

\* Shape.to_mask: the exception raised and the mask returned.  The mask is
\* kept as its shape, the vertices it is drawn from and, when embedded, the
\* slice of every axis (<<>> for a displayed axis, else <<start, stop>>).
NoMask == [err |-> "", mask |-> Nothing]

to_mask(s, mask_shape0) ==
    LET mask_shape == IF mask_shape0 = Nothing
                      THEN MinMax(data_displayed(s))[2]
                      ELSE mask_shape0[1]
        n     == Len(mask_shape)
        shown == Range(dims_displayed(s))
        plane == IF n = 2 THEN mask_shape
                 ELSE Take(mask_shape, dims_displayed(s))
        from  == IF s.use_face_vertices THEN s.face_vertices
                 ELSE data_displayed(s)
        drawn == [i \in DOMAIN from |-> LastN(from[i], Len(plane))]
        \* the axes whose slice is read from self.slice_key
        keyed == {i \in 0..(n - 1) : i \notin shown}
        M     == IF s.slice_key = Nothing THEN 0 ELSE Len(s.slice_key[1][1])
    IN  IF n # 2 /\ n # Len(s.data[1])
        THEN [NoMask EXCEPT !.err = "ValueError"]
        ELSE IF n = 2
        THEN [NoMask EXCEPT !.mask = Some([shape |-> mask_shape,
                                           drawn |-> drawn, key |-> <<>>])]
        ELSE IF keyed = {}
        THEN [NoMask EXCEPT !.mask =
                 Some([shape |-> mask_shape, drawn |-> drawn,
                       key |-> [i \in 1..n |-> <<>>]])]
        ELSE IF ~s.slice_key_set
        THEN [NoMask EXCEPT !.err = "AttributeError"]
        ELSE IF s.slice_key = Nothing
        THEN [NoMask EXCEPT !.err = "RuntimeError"]
        ELSE IF \E i \in keyed : i >= M
        THEN [NoMask EXCEPT !.err = "IndexError"]
        ELSE [NoMask EXCEPT !.mask =
                 Some([shape |-> mask_shape, drawn |-> drawn,
                       key |-> [i \in 1..n |->
                                  IF i - 1 \in shown THEN <<>>
                                  ELSE <<s.slice_key[1][1][i],
                                         s.slice_key[1][2][i] + 1>>]])]

(***************************************************************************)
(* The inputs of the shape operations.                                     *)
(***************************************************************************)
Square == <<<<0, 0>>, <<0, 2>>, <<2, 2>>, <<2, 0>>>>

\* three vertices on one line
Segment == <<<<0, 0>>, <<1, 1>>, <<2, 2>>>>

\* a polygon in the plane where axis 0 is 3
Planar3D == <<<<3, 0, 0>>, <<3, 0, 2>>, <<3, 2, 2>>, <<3, 2, 0>>>>

\* a polygon in no axis-aligned plane
NonPlanar3D == <<<<0, 0, 0>>, <<1, 0, 2>>, <<2, 2, 2>>, <<3, 2, 0>>>>

ShapeDataInputs == {Square, Segment, Planar3D, NonPlanar3D}

Libraries == {"bermuda", "partsegcore", "triangle", "pure_python"}

\* no library raises on the data, or all do
ThrowsInputs == {{}, Libraries}

\* the kinds of shape: a filled closed polygon and an open path, shown
\* in two dims; a polygon shown in three; a polygon of a subclass that
\* leaves slice_key alone
Polygon == [closed |-> TRUE, filled |-> TRUE, keyed |-> TRUE, ndisplay |-> 2]

Path == [closed |-> FALSE, filled |-> FALSE, keyed |-> TRUE, ndisplay |-> 2]

Polygon3D == [Polygon EXCEPT !.ndisplay = 3]

Unkeyed == [Polygon EXCEPT !.keyed = FALSE]

ModulesInputs ==
    [bermuda : BOOLEAN, partsegcore : BOOLEAN, triangle : BOOLEAN]

NoArgs == NoShapeCall.args

Quiet(op) == [NoShapeCall EXCEPT !.op = op]

ShapeCall(op, R, before, args) ==
    [op |-> op, err |-> R.err, saved |-> R.saved, tried |-> R.tried,
     before |-> before, args |-> args, mask |-> Nothing]

(***************************************************************************)
(* SpecBackend: one shape class under a changing backend setting.  The     *)
(* compiled libraries are there or not from the import of the module on;   *)
(* the triangle package can be imported at any time.  One instance of the  *)
(* class is followed; further instances are constructed and dropped.       *)
(***************************************************************************)
\* TRIANGULATION_BACKEND is assigned
SetBackend ==
    /\ \E b \in Backends : TRIANGULATION_BACKEND' = b
    /\ shcall' = Quiet("set_backend")
    /\ UNCHANGED <<modules, cls, shape, dimsVars, layerVars, viewerVars,
                   rayVars, slicerVars, normVars>>

\* `import triangle' somewhere in the process
ImportTriangle ==
    /\ ~modules.triangle
    /\ modules' = [modules EXCEPT !.triangle = TRUE]
    /\ shcall' = Quiet("import_triangle")
    /\ UNCHANGED <<TRIANGULATION_BACKEND, cls, shape, dimsVars, layerVars,
                   viewerVars, rayVars, slicerVars, normVars>>

\* the first instance of the class is constructed; it exists only when
\* the constructor returns
ConstructShape(dataInputs, kindInputs, throwsInputs) ==
    /\ ~shape.constructed
    /\ \E data \in dataInputs, kind \in kindInputs,
          throws \in throwsInputs :
          \E c \in {Shape_new(cls, TRIANGULATION_BACKEND, modules)} :
          \E R \in {Shape_construct(c, data, 1, <<>>, kind, throws)} :
              /\ cls' = c
              /\ shape' = IF R.err = "" THEN R.s ELSE shape
              /\ shcall' = ShapeCall("Shape", R, NoShape,
                                     [NoArgs EXCEPT !.face = kind.filled,
                                                    !.edge = TRUE,
                                                    !.throws = throws])
    /\ UNCHANGED <<TRIANGULATION_BACKEND, modules, dimsVars, layerVars,
                   viewerVars, rayVars, slicerVars, normVars>>

\* another instance of the same class is constructed
ConstructOther(dataInputs, throwsInputs) ==
    /\ shape.constructed
    /\ \E data \in dataInputs, throws \in throwsInputs :
          \E c \in {Shape_new(cls, TRIANGULATION_BACKEND, modules)} :
          \E R \in {Shape_construct(c, data, 1, <<>>, Polygon3D, throws)} :
              /\ cls' = c
              /\ shcall' = ShapeCall("Shape_other", R, NoShape,
                                     [NoArgs EXCEPT !.face = TRUE,
                                                    !.edge = TRUE,
                                                    !.throws = throws])
    /\ UNCHANGED <<TRIANGULATION_BACKEND, modules, shape, dimsVars,
                   layerVars, viewerVars, rayVars, slicerVars, normVars>>

\* self._set_meshes(self.data_displayed, closed, face, edge) on the instance
CallSetMeshes(throwsInputs) ==
    /\ shape.constructed
    /\ \E face \in BOOLEAN, edge \in BOOLEAN, throws \in throwsInputs :
          \E R \in {set_meshes(cls, shape, data_displayed(shape),
                              shape.closed, face, edge, throws)} :
              /\ shape' = R.s
              /\ shcall' = ShapeCall("_set_meshes", R, NoShape,
                                     [NoArgs EXCEPT !.face = face,
                                                    !.edge = edge,
                                                    !.throws = throws])
    /\ UNCHANGED <<TRIANGULATION_BACKEND, modules, cls, dimsVars, layerVars,
                   viewerVars, rayVars, slicerVars, normVars>>

InitBackend ==
    /\ TRIANGULATION_BACKEND = "pure_python"
    /\ modules \in ModulesInputs
    /\ cls = [set_meshes |-> "_set_meshes",
              triangulate_edge |-> "_triangulate_edge"]
    /\ shape = NoShape
    /\ shcall = NoShapeCall
    /\ InitDimsIdle
    /\ InitLayerIdle
    /\ InitViewerIdle
    /\ InitRayIdle
    /\ InitSlicerIdle
    /\ InitNormIdle

BackendData == {Square, Planar3D, NonPlanar3D}

NextBackend ==
    \/ SetBackend
    \/ ImportTriangle
    \/ ConstructShape(BackendData, {Polygon3D}, ThrowsInputs)
    \/ ConstructOther({Square}, ThrowsInputs)
    \/ CallSetMeshes(ThrowsInputs)

SpecBackend == InitBackend /\ [][NextBackend]_vars

\* the first of bermuda, partsegcore, triangle that can be used, else the
\* pure-python routine
FastestAvailable(mods) ==
    IF mods.bermuda THEN "_set_meshes_compiled_bermuda"
    ELSE IF mods.partsegcore THEN "_set_meshes_compiled_partseg"
    ELSE IF mods.triangle THEN "_set_meshes_triangle"
    ELSE "_set_meshes_py"

Constructing == shcall.op \in {"Shape", "Shape_other"}

\* C12: a construction never fails for want of an optional library: it
\* raises only when a library it calls raises on the data, and it calls
\* only libraries that are there.  When the configured backend names a
\* library that is missing, the class is bound to the pure-python routine;
\* under fastest_available it is bound to the first that is there of
\* bermuda, partsegcore, triangle, pure python.
C12_BackendFallback ==
    Constructing =>
        /\ shcall.args.throws = {} => shcall.err = ""
        /\ \A i \in DOMAIN shcall.tried :
              shcall.tried[i] = "pure_python" \/ modules[shcall.tried[i]]
        /\ \A b \in {"bermuda", "partsegcore", "triangle"} :
              (TRIANGULATION_BACKEND = b /\ ~modules[b])
                  => cls.set_meshes = "_set_meshes_py"
        /\ TRIANGULATION_BACKEND = "fastest_available"
              => cls.set_meshes = FastestAvailable(modules)

\* C12 witness: bermuda is configured and missing while partsegcore is
\* there, and the shape is built by the pure-python routine
C12_Witness ==
    /\ shcall.op = "Shape"
    /\ shcall.err = ""
    /\ TRIANGULATION_BACKEND = "bermuda"
    /\ ~modules.bermuda
    /\ modules.partsegcore
    /\ shape.constructed
    /\ shape.built_with = "_set_meshes_py"
    /\ Len(shape.edge_triangles) > 0

\* C13: every mesh computation on the shape calls only the library of the
\* routine its class was bound to when the shape was constructed (and the
\* pure-python helpers every routine shares), whatever was constructed,
\* configured or imported since.
C13_BackendFixedAtConstruction ==
    (shcall.op = "_set_meshes" /\ shape.constructed) =>
        /\ cls.set_meshes = shape.built_with
        /\ \A i \in DOMAIN shcall.tried :
              shcall.tried[i] \in {LibraryOf(shape.built_with), "pure_python"}

MeshComputing == shcall.op \in {"Shape", "Shape_other", "_set_meshes"}

\* C14: whenever a library raises while the meshes of a shape are computed,
\* whichever routine is bound and whether the face, the edge or both are
\* asked for, the vertex data is saved, RuntimeError naming the two saved
\* paths is raised, and the library that raised is the last one called.
C14_FailureSavedAndRaised ==
    (MeshComputing /\ shcall.err # "") =>
        /\ shcall.err = "RuntimeError"
        /\ shcall.saved = <<"path", "text_path">>
        /\ shcall.tried[Len(shcall.tried)] \in shcall.args.throws
        /\ \A i \in 1..(Len(shcall.tried) - 1) :
              shcall.tried[i] \notin shcall.args.throws

\* the axes along which every vertex has the same coordinate
ConstantAxes(data) ==
    {a \in 0..(Len(data[1]) - 1) :
        \A i \in DOMAIN data : data[i][a + 1] = data[1][a + 1]}

\* C15: after the meshes of a shape with three displayed dims are computed
\* by whichever routine is bound: when the vertices lie in no axis-aligned
\* plane the face mesh has no vertices and no triangles, while the edge
\* mesh, when asked for, has vertices and triangles; when they lie in such
\* a plane every face vertex has three coordinates and carries the constant
\* one on its axis.
C15_PlanarFace ==
    (/\ shcall.op \in {"Shape", "_set_meshes"}
     /\ shcall.err = ""
     /\ shape.constructed
     /\ Len(data_displayed(shape)[1]) = 3) =>
        LET data == data_displayed(shape)
        IN  /\ ConstantAxes(data) = {} =>
                /\ shape.face_vertices = <<>>
                /\ shape.face_triangles = <<>>
                /\ shcall.args.edge =>
                      /\ Len(shape.edge_vertices) > 0
                      /\ Len(shape.edge_offsets) = Len(shape.edge_vertices)
                      /\ Len(shape.edge_triangles) > 0
            /\ \A a \in ConstantAxes(data) :
                  \A i \in DOMAIN shape.face_vertices :
                     /\ Len(shape.face_vertices[i]) = 3
                     /\ shape.face_vertices[i][a + 1] = data[1][a + 1]

\* C15 witness: a polygon in no axis-aligned plane under the partsegcore
\* routine, face and edge asked for: no face, an edge of eight triangles
C15_Witness ==
    /\ shcall.op = "_set_meshes"
    /\ shcall.err = ""
    /\ shcall.args.face
    /\ shcall.args.edge
    /\ cls.set_meshes = "_set_meshes_compiled_partseg"
    /\ shape.data = NonPlanar3D
    /\ shape.face_triangles = <<>>
    /\ Len(shape.edge_triangles) = 8

(***************************************************************************)
(* SpecShape: one shape under the geometric operations, the setters and    *)
(* to_mask, with the class bound to the pure-python or to the bermuda      *)
(* routines.  At most MaxShapeOps operations change the shape.             *)
(***************************************************************************)
Changed(R) == [R EXCEPT !.s.ops = @ + 1]

CanChange == shape.constructed /\ shape.ops < MaxShapeOps

ShapeFrame ==
    UNCHANGED <<TRIANGULATION_BACKEND, modules, cls, dimsVars, layerVars,
                viewerVars, rayVars, slicerVars, normVars>>

\* shape.transform(T)
Transform ==
    /\ CanChange
    /\ \E T \in {<<<<1, 1>>, <<0, 1>>>>} :
          \E R \in {Changed(transform(cls, shape, T, {}))} :
              /\ shape' = R.s
              /\ shcall' = ShapeCall("transform", R, shape,
                                     [NoArgs EXCEPT !.mat = T])
    /\ ShapeFrame

\* shape.shift(v)
Shift ==
    /\ CanChange
    /\ \E v \in {<<1, -2>>} :
          \E R \in {Changed(shift(shape, v))} :
              /\ shape' = R.s
              /\ shcall' = ShapeCall("shift", R, shape,
                                     [NoArgs EXCEPT !.vec = v])
    /\ ShapeFrame

\* shape.scale(factor, center)
Scale ==
    /\ CanChange
    /\ \E a \in {[factor |-> <<2>>, center |-> Nothing],
                 [factor |-> <<3, 2>>, center |-> Some(<<2, 2>>)]} :
          \E R \in {Changed(scale(cls, shape, a.factor, a.center, {}))} :
              /\ shape' = R.s
              /\ shcall' = ShapeCall("scale", R, shape,
                                     [NoArgs EXCEPT !.vec = a.factor,
                                                    !.center = a.center])
    /\ ShapeFrame

\* shape.rotate(angle, center)
Rotate ==
    /\ CanChange
    /\ \E a \in {[angle |-> 90, center |-> Nothing],
                 [angle |-> 90, center |-> Some(<<2, 2>>)],
                 [angle |-> 180, center |-> Some(<<0, 2>>)]} :
          \E R \in {Changed(rotate(cls, shape, a.angle, a.center, {}))} :
              /\ shape' = R.s
              /\ shcall' = ShapeCall("rotate", R, shape,
                                     [NoArgs EXCEPT !.n = a.angle,
                                                    !.center = a.center])
    /\ ShapeFrame

\* shape.flip(axis, center), the center a list or an array
Flip ==
    /\ CanChange
    /\ \E a \in {[axis |-> 0, center |-> Nothing, as_list |-> FALSE],
                 [axis |-> 1, center |-> Some(<<2, 2>>), as_list |-> FALSE],
                 [axis |-> 0, center |-> Some(<<2, 2>>), as_list |-> TRUE],
                 [axis |-> 2, center |-> Nothing, as_list |-> FALSE]} :
          \E R \in {Changed(flip(cls, shape, a.axis, a.center, a.as_list, {}))} :
              /\ shape' = R.s
              /\ shcall' = ShapeCall("flip", R, shape,
                                     [NoArgs EXCEPT !.n = a.axis,
                                                    !.center = a.center,
                                                    !.face = a.as_list])
    /\ ShapeFrame

\* shape.edge_width = w
SetEdgeWidth ==
    /\ CanChange
    /\ \E w \in {3} :
          \E R \in {Changed(MeshRun(set_edge_width(shape, w)))} :
              /\ shape' = R.s
              /\ shcall' = ShapeCall("edge_width", R, shape,
                                     [NoArgs EXCEPT !.n = w])
    /\ ShapeFrame

\* shape.ndisplay = ndisplay
SetNdisplay ==
    /\ CanChange
    /\ \E ndisplay \in {2, 3} :
          \E R \in {Changed(set_ndisplay(cls, shape, ndisplay, {}))} :
              /\ shape' = R.s
              /\ shcall' = ShapeCall("ndisplay", R, shape,
                                     [NoArgs EXCEPT !.face = shape.filled,
                                                    !.edge = TRUE,
                                                    !.n = ndisplay])
    /\ ShapeFrame

\* shape.dims_order = the dims in reverse
SetDimsOrder ==
    /\ CanChange
    /\ \E R \in {Changed(set_dims_order(
                    cls, shape,
                    [i \in DOMAIN shape.dims_order |->
                        shape.dims_order[Len(shape.dims_order) + 1 - i]],
                    {}))} :
           /\ shape' = R.s
           /\ shcall' = ShapeCall("dims_order", R, shape,
                                  [NoArgs EXCEPT !.face = shape.filled,
                                                 !.edge = TRUE,
                                                 !.vec = R.s.dims_order])
    /\ ShapeFrame

\* shape.slice_key = None
SetSliceKey ==
    /\ CanChange
    /\ \E R \in {Changed(MeshRun([shape EXCEPT !.slice_key_set = TRUE,
                                              !.slice_key = Nothing]))} :
           /\ shape' = R.s
           /\ shcall' = ShapeCall("slice_key", R, shape, NoArgs)
    /\ ShapeFrame

MaskShapeInputs ==
    {Nothing, Some(<<4, 4>>), Some(<<4, 4, 4>>), Some(<<4>>),
     Some(<<4, 4, 4, 4>>)}

\* shape.to_mask(mask_shape)
ToMask ==
    /\ shape.constructed
    /\ \E mask_shape \in MaskShapeInputs :
          \E r \in {to_mask(shape, mask_shape)} :
              shcall' = [ShapeCall("to_mask", [MeshRun(shape) EXCEPT
                                                   !.err = r.err],
                                   shape,
                                   [NoArgs EXCEPT !.vec = mask_shape])
                            EXCEPT !.mask = r.mask]
    /\ UNCHANGED <<shape>>
    /\ ShapeFrame

InitShape ==
    /\ \E b \in {"pure_python", "bermuda"} :
          /\ TRIANGULATION_BACKEND = b
          /\ modules = [bermuda |-> b = "bermuda", partsegcore |-> FALSE,
                        triangle |-> FALSE]
    /\ cls = [set_meshes |-> "_set_meshes",
              triangulate_edge |-> "_triangulate_edge"]
    /\ shape = NoShape
    /\ shcall = NoShapeCall
    /\ InitDimsIdle
    /\ InitLayerIdle
    /\ InitViewerIdle
    /\ InitRayIdle
    /\ InitSlicerIdle
    /\ InitNormIdle

NextShape ==
    \/ ConstructShape(ShapeDataInputs, {Polygon, Path, Unkeyed}, {{}})
    \/ Transform
    \/ Shift
    \/ Scale
    \/ Rotate
    \/ Flip
    \/ SetEdgeWidth
    \/ SetNdisplay
    \/ SetDimsOrder
    \/ SetSliceKey
    \/ ToMask

SpecShape == InitShape /\ [][NextShape]_vars

GeometricOps == {"transform", "shift", "scale", "rotate", "flip"}

Geometric == shcall.op \in GeometricOps /\ shcall.err = ""

\* the edge mesh triangulate_edge gives for the displayed points of s
EdgeOfPoints(s) ==
    triangulate_edge(remove_path_duplicates(data_displayed(s), s.closed),
                     s.closed)

EdgeOf(s) ==
    [centers |-> s.edge_vertices, offsets |-> s.edge_offsets,
     triangles |-> s.edge_triangles]

\* the face vertices moved with the data: no face vertex was added or
\* dropped, and one that lay on a data vertex lies on it still
FaceFollowsData(b, s) ==
    /\ Len(s.face_vertices) = Len(b.face_vertices)
    /\ \A i \in DOMAIN b.face_vertices, j \in DOMAIN b.data :
          b.face_vertices[i] = data_displayed(b)[j]
              => s.face_vertices[i] = data_displayed(s)[j]

\* C16 as stated: each of the five operations leaves the face triangles
\* alone and rebuilds the edge mesh by a call of the edge triangulation on
\* the moved displayed points.
C16_Original ==
    Geometric =>
        /\ shape.face_triangles = shcall.before.face_triangles
        /\ FaceFollowsData(shcall.before, shape)
        /\ shcall.tried # <<>>
        /\ EdgeOf(shape) = EdgeOfPoints(shape)

\* C16: each of transform, scale, rotate and flip maps the displayed
\* columns of the data and the face vertices alike, leaves the face
\* triangles and the other columns of the data alone, and replaces the edge
\* mesh by the triangulation of the moved displayed points; shift adds its
\* vector to the data, the face vertices and the edge vertices, leaves face
\* triangles, edge offsets and edge triangles alone and triangulates
\* nothing.
C16_FrameOfOperations ==
    Geometric =>
        LET b == shcall.before
        IN  /\ shape.face_triangles = b.face_triangles
            /\ FaceFollowsData(b, shape)
            /\ Columns(shape.data, dims_not_displayed(shape))
                  = Columns(b.data, dims_not_displayed(b))
            /\ shcall.op = "transform" =>
                  /\ data_displayed(shape)
                        = Apply(shcall.args.mat, data_displayed(b))
                  /\ shape.face_vertices
                        = Apply(shcall.args.mat, b.face_vertices)
            /\ shcall.op = "shift" =>
                  /\ data_displayed(shape)
                        = Translate(data_displayed(b), shcall.args.vec)
                  /\ shape.face_vertices
                        = Translate(b.face_vertices, shcall.args.vec)
                  /\ shape.edge_vertices
                        = Translate(b.edge_vertices, shcall.args.vec)
                  /\ shape.edge_offsets = b.edge_offsets
                  /\ shape.edge_triangles = b.edge_triangles
                  /\ shcall.tried = <<>>
            /\ shcall.op # "shift" =>
                  /\ shcall.tried # <<>>
                  /\ EdgeOf(shape) = EdgeOfPoints(shape)

\* C16 witness: a filled square is sheared; its face keeps its two
\* triangles and the offsets of the new edge are not the sheared old ones
C16_Witness ==
    /\ shcall.op = "transform"
    /\ shcall.err = ""
    /\ Len(shape.face_triangles) = 2
    /\ shape.face_vertices # shcall.before.face_vertices
    /\ Len(shape.edge_triangles) = 8
    /\ shape.edge_offsets # Apply(shcall.args.mat, shcall.before.edge_offsets)

\* C17: assigning edge_width changes the stored width and nothing else:
\* the data, the face mesh and the edge mesh are as before and nothing is
\* triangulated; every rendered edge vertex is the old edge vertex plus the
\* new width times the old edge offset.
C17_EdgeWidthOnly ==
    shcall.op = "edge_width" =>
        LET b == shcall.before
        IN  /\ shcall.err = ""
            /\ shcall.tried = <<>>
            /\ shape = [b EXCEPT !.edge_width = shcall.args.n,
                                 !.ops = shape.ops]
            /\ Len(rendered_edge_vertices(shape)) = Len(b.edge_vertices)
            /\ \A j \in DOMAIN b.edge_vertices :
                  rendered_edge_vertices(shape)[j]
                     = VecAdd(b.edge_vertices[j],
                              VecScale(shcall.args.n, b.edge_offsets[j]))

\* C17 witness: the width of a shape with an edge mesh goes from 1 to 3 and
\* the rendered edge moves
C17_Witness ==
    /\ shcall.op = "edge_width"
    /\ shcall.before.edge_width = 1
    /\ shape.edge_width = 3
    /\ Len(shape.edge_triangles) > 0
    /\ rendered_edge_vertices(shape) # rendered_edge_vertices(shcall.before)

\* a counter-clockwise turn of the vector d = (axis 0, axis 1) by a multiple
\* of 90 degrees, axis 1 drawn as x to the right and axis 0 as y upwards
TurnedLeft(angle, d) ==
    CASE angle % 360 = 0 -> d
      [] angle % 360 = 90 -> <<d[2], -d[1]>>
      [] angle % 360 = 180 -> <<-d[1], -d[2]>>
      [] angle % 360 = 270 -> <<-d[2], d[1]>>

\* C18: rotate and scale with a center map every displayed vertex v to
\* center + M(v - center), so a vertex at the center stays there; for scale
\* M multiplies each axis by its factor, for rotate M turns by the angle,
\* given in degrees, counter-clockwise (axis 1 as x, axis 0 as y).
C18_CenterRelative ==
    (/\ shcall.op \in {"scale", "rotate"}
     /\ shcall.err = ""
     /\ shcall.args.center # Nothing) =>
        LET b      == data_displayed(shcall.before)
            center == shcall.args.center[1]
            factor == shcall.args.vec
            M(d)   == IF shcall.op = "rotate"
                      THEN TurnedLeft(shcall.args.n, d)
                      ELSE IF Len(factor) = 1
                      THEN <<factor[1] * d[1], factor[1] * d[2]>>
                      ELSE <<factor[1] * d[1], factor[2] * d[2]>>
        IN  \A i \in DOMAIN b :
               /\ data_displayed(shape)[i]
                     = VecAdd(center, M(VecSub(b[i], center)))
               /\ b[i] = center => data_displayed(shape)[i] = center

\* C18 witness: a square is turned by 90 degrees about its corner (2, 2);
\* the corner stays and the corner (0, 0) goes to (0, 4)
C18_Witness ==
    /\ shcall.op = "rotate"
    /\ shcall.err = ""
    /\ shcall.args.n = 90
    /\ shcall.args.center = Some(<<2, 2>>)
    /\ shcall.before.data = Square
    /\ shape.data[3] = <<2, 2>>
    /\ shape.data[1] = <<0, 4>>

\* the mask of the last to_mask call is to be embedded and an axis that is
\* not displayed needs the slice key
NeedsSliceKey ==
    LET n == IF shcall.args.vec = Nothing THEN 2
             ELSE Len(shcall.args.vec[1])
    IN  /\ n # 2
        /\ n = Len(shape.data[1])
        /\ \E i \in 0..(n - 1) : i \notin Range(dims_displayed(shape))

HasSliceKey == shape.slice_key_set /\ shape.slice_key # Nothing

Whats == [i \in DOMAIN vlog |-> vlog[i].what]

\* C20 as stated: a fit_to_view call that returns has written center, zoom
\* and angles into the camera and has then emitted one reset_view carrying
\* the values of the camera.
C20_Original ==
    (vcall.op = "fit_to_view" /\ verr = "") =>
        /\ \A w \in {"center", "zoom", "angles"} :
              \E i \in DOMAIN vlog : vlog[i].what = w
        /\ Cardinality({i \in DOMAIN vlog : vlog[i].what = "reset_view"}) = 1
        /\ vlog[Len(vlog)].what = "reset_view"
        /\ vlog[Len(vlog)].cam = camera

\* C20: a fit_to_view call that returns has written center, then zoom, and
\* has left the angles of the camera as they were; it has then emitted one
\* reset_view, after the writes, carrying the center, the zoom and the
\* angles the camera has at that moment.  Only reset_view writes angles,
\* before fitting, in 3D display when asked to reset them.
C20_WritesThenNotifies ==
    FitReturned =>
        /\ Whats = (IF /\ vcall.op = "reset_view"
                       /\ viewer.ndisplay = 3
                       /\ vcall.reset_camera_angle
                    THEN <<"angles">> ELSE <<>>)
                   \o <<"center", "zoom", "reset_view">>
        /\ vlog[Len(vlog)].cam = camera
        /\ vlog[Len(vlog)].cam = vlog[Len(vlog) - 1].cam
        /\ \A i \in DOMAIN vlog : vlog[i].cam.angles = vlog[1].cam.angles
        /\ Whats[1] = "angles" => camera.angles = DefaultAngles

\* C20 witness: fit_to_view on a camera the user had turned away from the
\* default angles; center and zoom are written, the angles stay, and the
\* notification carries them
C20_Witness ==
    /\ vcall.op = "fit_to_view"
    /\ verr = ""
    /\ viewer.ndisplay = 3
    /\ camera.angles = <<0, 90, 0>>
    /\ camera.zoom # NumOne
    /\ Whats = <<"center", "zoom", "reset_view">>
    /\ vlog[3].cam.angles = <<0, 90, 0>>

(***************************************************************************)
(* C21.  The bounding box of a shape.                                      *)
(***************************************************************************)
\* Shape.bounding_box: the stored box on the displayed axes, lowered and
\* raised by half the edge width.  Half a width need not be whole, so the
\* box is given in halves: every entry is twice the coordinate.
Shape_bounding_box(s) ==
    <<[k \in DOMAIN dims_displayed(s) |->
          2 * Take(s.bounding_box[1], dims_displayed(s))[k] - s.edge_width],
      [k \in DOMAIN dims_displayed(s) |->
          2 * Take(s.bounding_box[2], dims_displayed(s))[k] + s.edge_width]>>

\* the extent of the displayed data padded by half the edge width, in halves
PaddedExtent(s) ==
    <<[k \in DOMAIN dims_displayed(s) |->
          2 * MinMax(data_displayed(s))[1][k] - s.edge_width],
      [k \in DOMAIN dims_displayed(s) |->
          2 * MinMax(data_displayed(s))[2][k] + s.edge_width]>>

BoundingBoxFollowsData(s) ==
    s.constructed => Shape_bounding_box(s) = PaddedExtent(s)

set_loaded(S, loaded) ==
    IF S.l.loaded # loaded
    THEN Emit([S EXCEPT !.l.loaded = loaded], "loaded")
    ELSE S

\* Layer._set_unloaded_slice_id
set_unloaded_slice_id(S, slice_id) ==
    set_loaded([S EXCEPT !.l.last_slice_id = slice_id], FALSE)

\* an _update_loaded_slice_id that takes every completed slice for the last
update_loaded_slice_id_any(S, slice_id) == set_loaded(S, TRUE)

\* Layer._update_loaded_slice_id
update_loaded_slice_id(S, slice_id) ==
    IF S.l.last_slice_id = slice_id THEN set_loaded(S, TRUE) ELSE S

LoadedCall(op, slice_id) ==
    [op |-> op, slice_id |-> slice_id, was_loaded |-> layer.loaded,
     was_last |-> layer.last_slice_id]

\* a slice is requested: the layer is told the ID of the pending slice
RequestSlice ==
    /\ layer.constructed
    /\ slicer.next_id < MaxSliceIds
    /\ Commit(set_unloaded_slice_id(Begin, slicer.next_id),
              LoadedCall("_set_unloaded_slice_id", slicer.next_id))
    /\ slicer' = [next_id |-> slicer.next_id + 1,
                  pending |-> slicer.pending \cup {slicer.next_id}]
    /\ UNCHANGED <<dimsVars, viewerVars, async_, observed, rayVars, shapeVars,
                   normVars>>

\* a slice in flight completes: the layer is told the ID of the done slice
CompleteSlice ==
    /\ layer.constructed
    /\ \E slice_id \in slicer.pending :
          /\ Commit(update_loaded_slice_id(Begin, slice_id),
                    LoadedCall("_update_loaded_slice_id", slice_id))
          /\ slicer' = [slicer EXCEPT !.pending = @ \ {slice_id}]
    /\ UNCHANGED <<dimsVars, viewerVars, async_, observed, rayVars, shapeVars,
                   normVars>>

InitLoaded ==
    /\ InitDimsIdle
    /\ InitRayIdle
    /\ InitShapeIdle
    /\ InitSlicerIdle
    /\ InitNormIdle
    /\ InitViewerIdle
    /\ observed = LayerEvents
    /\ layer = NoLayer
    /\ fx = {}
    /\ err = ""
    /\ call = NoCall
    /\ async_ = FALSE

NextLoaded ==
    \/ Construct(MaxModeNdim)
    \/ RequestSlice
    \/ CompleteSlice

SpecLoaded == InitLoaded /\ [][NextLoaded]_vars

\* C22: for any interleaving of slice requests and completions the layer goes
\* from unloaded to loaded only when the completed slice ID equals the most
\* recently set pending slice ID; the completion of a superseded ID leaves
\* the loaded flag as it was, a request leaves the layer unloaded, and the
\* loaded event is emitted exactly when the flag changes value.
C22_LoadedByLatestSlice ==
    /\ call.op = "_update_loaded_slice_id" =>
          /\ (layer.loaded /\ ~call.was_loaded) =>
                /\ call.slice_id = call.was_last
                /\ call.slice_id = slicer.next_id - 1
          /\ call.slice_id # call.was_last =>
                layer.loaded = call.was_loaded
          /\ layer.last_slice_id = call.was_last
          /\ ("loaded" \in fx) <=> (layer.loaded # call.was_loaded)
    /\ call.op = "_set_unloaded_slice_id" =>
          /\ ~layer.loaded
          /\ layer.last_slice_id = call.slice_id
          /\ ("loaded" \in fx) <=> call.was_loaded

\* the last of three requests has completed and loaded the layer, with the
\* loaded event, while an older request is still in flight
C22_Witness ==
    /\ call.op = "_update_loaded_slice_id"
    /\ ~call.was_loaded
    /\ layer.loaded
    /\ "loaded" \in fx
    /\ slicer.next_id = 3
    /\ call.slice_id = 2
    /\ slicer.pending = {1}

\* the completion of a superseded request has left the layer unloaded
C22_Superseded ==
    /\ call.op = "_update_loaded_slice_id"
    /\ call.slice_id < call.was_last
    /\ ~layer.loaded
    /\ fx = {}

(***************************************************************************)
(* C23.  _make_slice_input for a layer that is not in a viewer.            *)
(***************************************************************************)
\* C23: _make_slice_input called with dims = None does not raise and gives
\* a slice input whose world has the dimensionality of the layer, all of it
\* displayed: a full slice with no slicing point, one order entry per dim.
C23_NoDimsFullSlice ==
    (call.op = "_slice_dims" /\ call.dims.none) =>
        /\ err = ""
        /\ layer.slice_input.world_slice = ThickNDSlice_make_full(layer.ndim)
        /\ Len(layer.slice_input.order) = layer.ndim

(***************************************************************************)
(* SpecNorm: the pure function _normalize_layer_data of viewer_model.py,   *)
(* applied to tuples and lists of zero to four items.  An item is a record *)
(* that says what kind of object it is.                                    *)
(***************************************************************************)
\* napari.layers.NAMES: the lower-case names of the layer classes
layers_NAMES ==
    {"image", "labels", "points", "shapes", "surface", "tracks", "vectors"}

EmptyDict == [kind |-> "dict", keys |-> {}]

Str(v) == [kind |-> "str", value |-> v]

\* napari.layers.image._image_utils.guess_labels: labels for an array of a
\* 32- or 64-bit integer dtype, image for everything else
guess_labels(item) ==
    IF item.kind = "array" /\ item.dtype \in {"int32", "uint32", "int64", "uint64"}
    THEN Str("labels") ELSE Str("image")

\* _normalize_layer_data; the guard reads
\* "not isinstance(data, tuple) and 0 < len(data) < 4"
normalize_layer_data(data) ==
    IF data.kind # "tuple" /\ 0 < Len(data.items) /\ Len(data.items) < 4
    THEN [err |-> "ValueError", result |-> Nothing]
    ELSE LET d1 == data.items
         IN  IF Len(d1) > 1 /\ d1[2].kind # "dict"
             THEN [err |-> "ValueError", result |-> Nothing]
             ELSE LET d2 == IF Len(d1) > 1 THEN d1 ELSE Append(d1, EmptyDict)
                  IN  IF Len(d2) > 2 /\ d2[3].value \notin layers_NAMES
                      THEN [err |-> "ValueError", result |-> Nothing]
                      ELSE IF Len(d2) > 2
                      THEN [err |-> "", result |-> Some(d2)]
                      ELSE [err |-> "",
                            result |-> Some(Append(d2, guess_labels(d2[1])))]

\* the items a LayerData is made of
NormData == {[kind |-> "array", dtype |-> "float32"],
             [kind |-> "array", dtype |-> "int32"],
             [kind |-> "list", dtype |-> ""]}
NormMeta == {EmptyDict, [kind |-> "dict", keys |-> {"name"}],
             [kind |-> "str", keys |-> {}]}
NormType == {Str("image"), Str("points"), Str("Image")}
NormExtra == {Str("extra")}

NormItems ==
    {<<>>}
    \cup {<<d>> : d \in NormData}
    \cup {<<d, m>> : d \in NormData, m \in NormMeta}
    \cup {<<d, m, t>> : d \in NormData, m \in NormMeta, t \in NormType}
    \cup {<<d, m, t, x>> : d \in NormData, m \in NormMeta, t \in NormType,
                           x \in NormExtra}

NormInputs == {[kind |-> k, items |-> i] : k \in {"tuple", "list"},
                                           i \in NormItems}

InitNorm ==
    /\ \E a \in NormInputs : norm = [NoNorm EXCEPT !.arg = a]
    /\ InitDimsIdle
    /\ InitLayerIdle
    /\ InitRayIdle
    /\ InitShapeIdle
    /\ InitSlicerIdle
    /\ InitViewerIdle

CallNormalizeLayerData ==
    /\ ~norm.done
    /\ \E r \in {normalize_layer_data(norm.arg)} :
          norm' = [norm EXCEPT !.done = TRUE, !.err = r.err,
                               !.result = r.result]
    /\ UNCHANGED <<dimsVars, layerVars, viewerVars, rayVars, shapeVars,
                   slicerVars>>

NextNorm == CallNormalizeLayerData

SpecNorm == InitNorm /\ [][NextNorm]_vars

\* what the claim calls an input to refuse
Refused(data) ==
    \/ Len(data.items) < 1
    \/ Len(data.items) > 3
    \/ Len(data.items) > 1 /\ data.items[2].kind # "dict"
    \/ Len(data.items) > 2 /\ data.items[3].value \notin layers_NAMES

\* C24: _normalize_layer_data raises ValueError for every input that has
\* fewer than 1 or more than 3 items, whose second item is not a mutable
\* mapping, or whose third item is not a layer type name; for every other
\* tuple it returns (data, meta, layer_type), a missing meta being an empty
\* dict and a missing layer type the one guessed from the data.
C24_NormalizeLayerData ==
    norm.done =>
        /\ Refused(norm.arg) => norm.err = "ValueError"
        /\ (~Refused(norm.arg) /\ norm.arg.kind = "tuple") =>
              /\ norm.err = ""
              /\ norm.result # Nothing
              /\ LET a == norm.arg.items
                     r == norm.result[1]
                 IN  /\ Len(r) = 3
                     /\ r[1] = a[1]
                     /\ r[2] = IF Len(a) > 1 THEN a[2] ELSE EmptyDict
                     /\ r[3] = IF Len(a) > 2 THEN a[3]
                               ELSE guess_labels(a[1])

(***************************************************************************)
(* SpecMode: one layer whose mode and visibility are assigned in any       *)
(* order.  The call record remembers, next to the assignment, the mode     *)
(* that was last in effect while the layer was visible.                    *)
(***************************************************************************)
\* the mode last in effect while the layer was visible, before this step
ShownMode ==
    IF call.op \in {"mode", "visible"} THEN call.shown_mode
    ELSE IF layer.visible THEN Some(layer.mode) ELSE Nothing

ModeCall(op, arg, shown_mode) ==
    [op |-> op, arg |-> arg, was_visible |-> layer.visible,
     was_mode |-> layer.mode, shown_mode |-> shown_mode]

\* layer.mode = mode; a string that names no mode is refused by the mode
\* class
AssignMode ==
    /\ layer.constructed
    /\ \E mode \in Modes \cup {"no_such_mode"} :
          IF mode \notin Modes
          THEN /\ err' = "ValueError"
               /\ fx' = {}
               /\ call' = ModeCall("mode", mode, ShownMode)
               /\ UNCHANGED layer
          ELSE \E S \in {set_mode(Begin, mode)} :
                  Commit(S, ModeCall("mode", mode,
                                     IF layer.visible THEN Some(S.l.mode)
                                     ELSE ShownMode))
    /\ UNCHANGED <<dimsVars, viewerVars, async_, observed, rayVars, shapeVars,
                   slicerVars, normVars>>

\* layer.visible = visible
AssignVisible ==
    /\ layer.constructed
    /\ \E visible \in BOOLEAN :
          \E S \in {set_visible(Begin, async_, visible)} :
              Commit(S, ModeCall("visible", visible,
                                 IF ShownMode = Nothing /\ visible
                                 THEN Some(S.l.mode) ELSE ShownMode))
    /\ UNCHANGED <<dimsVars, viewerVars, async_, observed, rayVars, shapeVars,
                   slicerVars, normVars>>

InitMode == InitLoaded

NextMode ==
    \/ Construct(MaxModeNdim)
    \/ AssignMode
    \/ AssignVisible

SpecMode == InitMode /\ [][NextMode]_vars

\* C26: in every state reached after construction by assignments to mode
\* and visible, a layer that is not visible (or not editable) has the mode
\* pan_zoom: a mode assigned meanwhile ends as pan_zoom, and hiding the
\* layer switches it to pan_zoom.
C26_HiddenIsPanZoom ==
    (layer.constructed /\ (~layer.visible \/ ~layer.editable)) =>
        /\ layer.mode = PAN_ZOOM
        /\ layer.mouse_pan
        /\ ~layer.transform_box_visible

\* the transform mode was assigned to a hidden layer that was hidden while
\* in transform mode, and the layer is in pan_zoom
C26_Witness ==
    /\ layer.constructed
    /\ ~layer.visible
    /\ call.op = "mode"
    /\ call.arg = TRANSFORM
    /\ ~call.was_visible
    /\ err = ""
    /\ layer.visible_mode = Some(TRANSFORM)
    /\ layer.mode = PAN_ZOOM

\* C27: for any sequence of assignments to visible (and to mode), whenever
\* the layer is visible its mode is the mode that was last in effect while
\* it was visible: hiding and re-showing restores the mode held before
\* hiding, also after hiding twice in a row, and visible = True on a
\* visible layer leaves its mode unchanged.
C27_ShownModeRestored ==
    (/\ layer.constructed
     /\ layer.visible
     /\ call.op \in {"mode", "visible"}
     /\ call.shown_mode # Nothing) =>
        layer.mode = call.shown_mode[1]

(***************************************************************************)
(* C25.  flip about a center.                                              *)
(***************************************************************************)
\* C25: flip(axis, center) with a center given mirrors the shape about the
\* flip axis through center: a data vertex located at center stays at
\* center, and the same flip applied twice restores the original data; an
\* axis other than 0 or 1 raises ValueError and leaves the shape unchanged.
C25_FlipAboutCenter ==
    shcall.op = "flip" =>
        LET b == shcall.before
            a == shcall.args
        IN  /\ (a.n \in {0, 1} /\ a.center # Nothing /\ b.ndisplay = 2) =>
                  /\ shcall.err = ""
                  /\ \A i \in DOMAIN b.data :
                        data_displayed(b)[i] = a.center[1] =>
                            data_displayed(shape)[i] = a.center[1]
                  /\ flip(cls, shape, a.n, a.center, a.face, {}).s.data
                        = b.data
            /\ a.n \notin {0, 1} =>
                  /\ shcall.err = "ValueError"
                  /\ shape = [b EXCEPT !.ops = @ + 1]

(***************************************************************************)
(* C28.  A refused margin.                                                 *)
(***************************************************************************)
\* C28: when fit_to_view or reset_view is called with a margin outside
\* [0, 1), the error leaves the viewer unchanged: camera.center, camera.zoom
\* and camera.angles keep the values they had before the call and no
\* reset_view notification is emitted.
C28_RefusedMarginChangesNothing ==
    [][(/\ vcall'.op \in {"fit_to_view", "reset_view"}
        /\ ~InUnitInterval(vcall'.margin))
       => /\ verr' = "ValueError"
          /\ camera' = camera
          /\ \A i \in DOMAIN vlog' : vlog'[i].what # "reset_view"]_vars

(***************************************************************************)
(* C29.  The zoom of a flat scene.                                         *)
(***************************************************************************)
\* C29: for every margin in [0, 1), every positive canvas size and every
\* extent, also one that is zero along one or two axes, fit_to_view sets a
\* finite, strictly positive camera.zoom in 2D and in 3D display: the
\* viewbox is never divided by a displayed height or width of zero.
C29_ZoomFinitePositive ==
    (FitReturned /\ verr = "") =>
        /\ IsFinite(camera.zoom)
        /\ NumLess(NumZero, camera.zoom)

(***************************************************************************)
(* C30.  The edge routine of the class.                                    *)
(***************************************************************************)
\* the library whose edge routine goes with a mesh routine: the compiled
\* backends bring their own, triangle and pure python share the plain one
EdgeLibraryFor(routine) ==
    IF LibraryOf(routine) \in {"bermuda", "partsegcore"}
    THEN LibraryOf(routine) ELSE "pure_python"

\* C30: after every construction, under whatever sequence of backend
\* settings, the mesh routine and the edge routine bound to the class belong
\* to the same backend, the one the configuration selects: once the class is
\* constructed under pure python or triangle, the edges that transform
\* re-triangulates come from the plain edge routine.
C30_EdgeRoutineFollowsBackend ==
    Constructing =>
        /\ LibraryOf(cls.triangulate_edge) = EdgeLibraryFor(cls.set_meshes)
        /\ triangulate_edge_bound(cls, Square, TRUE, {}).lib
              = EdgeLibraryFor(cls.set_meshes)

=============================================================================
